---- MODULE Spec2Model ----
(***************************************************************************)
(* State-machine model of the bidirectional payment channel:               *)
(*   - the BidirectionalChannel contract (funding, revocation, dispute,    *)
(*     challenge, penalty, settlement), and                                *)
(*   - the off-chain commitment exchange of the channel CLI                *)
(*     (send-payment, sign-commitment, finalize-commitment,                *)
(*     receive-revocation) on each party's local ledger.                   *)
(* keccak256 is modelled as an injective constructor, a signature as the   *)
(* pair (signer, signed digest).                                           *)
(***************************************************************************)
EXTENDS Integers, Sequences, FiniteSets, TLC

\* ------------------------------------------------------------------------
\* Bounds of the model
\* ------------------------------------------------------------------------
\* largest msg.value of a fundChannel call
MaxValue == 2
\* largest channelBalance the funding builds up
MaxBalance == 2
\* largest commitment nonce
MaxNonce == 2
\* last value of block.timestamp
MaxTime == 3
\* largest number of keys of revokedCommitments set to true
MaxRevoked == 1

\* Constructor arguments of the modelled channel (_fundingDeadline,
\* _disputePeriod), with block.timestamp = 0 at construction
fundingDeadline == 1
disputePeriod == 1

\* ------------------------------------------------------------------------
\* Participants and values
\* ------------------------------------------------------------------------
partyA == "A"
partyB == "B"
Parties == {partyA, partyB}
Stranger == "X"
Callers == Parties \cup {Stranger}

Other(p) == IF p = partyA THEN partyB ELSE partyA

FUNDING == "FUNDING"
OPEN == "OPEN"
DISPUTED == "DISPUTED"
CLOSED == "CLOSED"

StateOrd(s) == CASE s = FUNDING -> 0 [] s = OPEN -> 1 [] s = DISPUTED -> 2 [] s = CLOSED -> 3

\* keccak256(abi.encodePacked(x)): collision free
Keccak(x) == <<"keccak", x>>

\* keccak256(abi.encodePacked(address(this), nonce, balanceA, balanceB))
CommitmentHash(nonce, balanceA, balanceB) == <<"commitment", nonce, balanceA, balanceB>>

\* the close payload hashed as a commitment of nonce 0 (no "CLOSE" prefix, a
\* zero word in its place)
CloseHashAsCommitment(balanceA, balanceB) == CommitmentHash(0, balanceA, balanceB)

\* keccak256(abi.encodePacked("CLOSE", address(this), balanceA, balanceB))
CloseHash(balanceA, balanceB) == <<"CLOSE", balanceA, balanceB>>

\* MessageHashUtils.toEthSignedMessageHash
ToEthSignedMessageHash(h) == <<"eth-signed", h>>

\* signer.signMessage(getBytes(hash)): a signature binds the signer and the digest
SignMessage(signer, h) == [signer |-> signer, digest |-> ToEthSignedMessageHash(h)]

\* ECDSA.recover: the signer when the signature is over this digest, otherwise
\* an address that is neither party
Recover(digest, sig) == IF sig.digest = digest THEN sig.signer ELSE Stranger

NoSig == [signer |-> Stranger, digest |-> <<"none">>]

\* ------------------------------------------------------------------------
\* State
\* ------------------------------------------------------------------------
VARIABLES
    channelState,        \* State public channelState
    channelBalance,      \* uint256 public channelBalance
    deposits,            \* mapping(address => uint256) deposits
    latestNonce,         \* uint256 public latestNonce
    revokedCommitments,  \* mapping(bytes32 => bool), as the set of keys mapped to true
    disputeDeadline,
    disputeInitiator,
    disputedBalanceA,
    disputedBalanceB,
    disputedNonce,
    now,                 \* block.timestamp
    paid,                \* ether the channel has transferred to each party
    lastOp,              \* the last call or command and its outcome
    commitments,         \* commitments.json of each party: nonce -> commitment record
    states,              \* states.json of each party: nonce, balanceA, balanceB
    secrets,             \* content server: bobRevocationManager.secrets
    revealedSecrets,     \* content server: bobRevocationManager.revealedSecrets
    pendingInvoices,     \* content server: pendingInvoices
    channels,            \* content server: the commitments stored in channels
    released,            \* how often the server has sent out the secret of each invoice
    reply,               \* what the last call of the content server returned
    commitmentsFile,     \* commitments.json of one party with two channels
    statesFile,          \* states.json of that party
    process,             \* the CLI processes at work on these files
    sequential,          \* the files that the same operations leave when run one by one
    status,              \* ReentrancyGuard: whether a nonReentrant function is running
    frame                \* the settlement call that is making its transfers

chainVars == <<channelState, channelBalance, deposits, latestNonce, revokedCommitments,
               disputeDeadline, disputeInitiator, disputedBalanceA, disputedBalanceB,
               disputedNonce, paid>>

ledgerVars == <<commitments, states>>

contentVars == <<secrets, revealedSecrets, pendingInvoices, channels, released, reply>>

storeVars == <<commitmentsFile, statesFile, process, sequential>>

guardVars == <<status, frame>>

vars == <<chainVars, now, lastOp, commitments, states, contentVars, storeVars, guardVars>>

NoAddress == "0x0"

None == <<"none">>

\* The commitment record of commitments.json; nonce = 0 stands for no record
NoCommitment ==
    [nonce |-> 0, balanceA |-> 0, balanceB |-> 0, signature |-> NoSig,
     counterpartySignature |-> NoSig, revocationPreimage |-> None,
     revocationHash |-> None, counterpartyRevocationHash |-> None,
     revoked |-> FALSE, revocationSecret |-> None, generation |-> 0]

\* states.json entry of a party that has not registered the channel
NoState == [nonce |-> -1, balanceA |-> 0, balanceB |-> 0]

\* The content server sells to alice (party A of the channel) on behalf of bob
\* (party B)
alice == partyA
bob == partyB

\* contentCatalog: the price of each content, in units of 0.1 ETH
contentCatalog == [c \in {"content-1", "content-2"} |-> IF c = "content-1" THEN 1 ELSE 2]

ContentIds == DOMAIN contentCatalog

\* the nonces a RevocationKeyManager is asked for
KeyNonces == 1..MaxNonce

\* keccak256(solidityPacked(['address', 'uint256', 'string'],
\*                          [clientChannelAddress, newNonce, contentId]))
InvoiceId(nonce, contentId) == <<"invoice", nonce, contentId>>

InvoiceIds == {InvoiceId(n, c) : n \in KeyNonces, c \in ContentIds}

\* pendingInvoices.get(invoiceId) of an id the map does not hold
NoInvoice ==
    [contentId |-> "", nonce |-> 0, price |-> 0, bobRevocationSecret |-> None,
     bobRevocationHash |-> None, aliceAddress |-> NoAddress,
     commitment |-> [nonce |-> 0, aliceBalance |-> 0, bobBalance |-> 0,
                     bobRevocationHash |-> None]]

\* what a call of the content server or of its key manager returns: whether it
\* succeeded, and the value or the JSON body
Respond(name, arg, ok, value) == [name |-> name, arg |-> arg, ok |-> ok, value |-> value]

\* The two channels of the party and the CLI process at work on each
ChannelAddresses == {"X", "Y"}
Processes == {"P1", "P2"}
ChannelOf(proc) == IF proc = "P1" THEN "X" ELSE "Y"

\* saveChannel: the files after both channels were registered
StoreInit ==
    /\ commitmentsFile = [ch \in ChannelAddresses |-> <<>>]
    /\ statesFile = [ch \in ChannelAddresses |-> [nonce |-> 0, balanceA |-> 0, balanceB |-> 0]]
    /\ process = [proc \in Processes |-> [pc |-> "idle", arg |-> None, loaded |-> None,
                                          done |-> 0]]
    /\ sequential = [commitments |-> commitmentsFile, states |-> statesFile]

ContentInit ==
    /\ secrets = [n \in KeyNonces |-> None]
    /\ revealedSecrets = [n \in KeyNonces |-> None]
    /\ pendingInvoices = [id \in InvoiceIds |-> NoInvoice]
    /\ channels = [commitments |-> <<>>, latestNonce |-> 0]
    /\ released = [id \in InvoiceIds |-> 0]
    /\ reply = Respond("listen", None, TRUE, None)

Call(name, sender, ok, nonce, balanceA, balanceB, sigA, sigB, arg) ==
    [name |-> name, sender |-> sender, ok |-> ok, nonce |-> nonce,
     balanceA |-> balanceA, balanceB |-> balanceB, sigA |-> sigA, sigB |-> sigB,
     arg |-> arg]

\* no settlement call is under way
NoFrame ==
    [op |-> Call("none", NoAddress, FALSE, 0, 0, 0, NoSig, NoSig, <<>>), saved |-> <<>>,
     transfers |-> <<>>]

Init ==
    /\ channelState = FUNDING
    /\ channelBalance = 0
    /\ deposits = [p \in Parties |-> 0]
    /\ latestNonce = 0
    /\ revokedCommitments = {}
    /\ disputeDeadline = 0
    /\ disputeInitiator = NoAddress
    /\ disputedBalanceA = 0
    /\ disputedBalanceB = 0
    /\ disputedNonce = 0
    /\ now = 0
    /\ paid = [p \in Parties |-> 0]
    /\ lastOp = Call("constructor", partyA, TRUE, 0, 0, 0, NoSig, NoSig, <<>>)
    /\ commitments = [p \in Parties |-> [n \in 1..MaxNonce |-> NoCommitment]]
    /\ states = [p \in Parties |->
                    IF p = partyA THEN [nonce |-> 0, balanceA |-> 0, balanceB |-> 0]
                    ELSE NoState]
    /\ ContentInit
    /\ StoreInit
    /\ status = "NOT_ENTERED"
    /\ frame = NoFrame

\* ------------------------------------------------------------------------
\* Contract functions.  For each function, <name>Accepts is the conjunction of
\* its modifiers and require statements (the call does not revert), and the
\* action applies its effects when accepted.  A call that reverts leaves the
\* chain state unchanged and is recorded as rejected.
\* ------------------------------------------------------------------------
Rejected(name, sender) ==
    /\ lastOp' = Call(name, Stranger, FALSE, 0, 0, 0, NoSig, NoSig, <<>>)
    /\ UNCHANGED <<chainVars, now>>

onlyParticipants(sender) == sender = partyA \/ sender = partyB

inState(s) == channelState = s

\* fundChannel without the require of line 80
fundChannelAcceptsAfterDeadline(sender, value) ==
    /\ onlyParticipants(sender)
    /\ inState(FUNDING)
    /\ value > 0

fundChannelAccepts(sender, value) ==
    /\ onlyParticipants(sender)
    /\ inState(FUNDING)
    /\ now <= fundingDeadline
    /\ value > 0

\* fundChannel without line 84: the deposit is credited, the total is not
fundChannelForgetsTotal(sender, value) ==
    IF fundChannelAccepts(sender, value)
    THEN /\ deposits' = [deposits EXCEPT ![sender] = @ + value]
         /\ lastOp' = Call("fundChannel", sender, TRUE, 0, 0, 0, NoSig, NoSig, value)
         /\ UNCHANGED <<channelState, channelBalance, latestNonce, revokedCommitments,
                        disputeDeadline, disputeInitiator, disputedBalanceA,
                        disputedBalanceB, disputedNonce, paid, now>>
    ELSE Rejected("fundChannel", sender)

fundChannel(sender, value) ==
    IF fundChannelAccepts(sender, value)
    THEN /\ deposits' = [deposits EXCEPT ![sender] = @ + value]
         /\ channelBalance' = channelBalance + value
         /\ lastOp' = Call("fundChannel", sender, TRUE, 0, 0, 0, NoSig, NoSig, value)
         /\ UNCHANGED <<channelState, latestNonce, revokedCommitments, disputeDeadline,
                        disputeInitiator, disputedBalanceA, disputedBalanceB,
                        disputedNonce, paid, now>>
    ELSE Rejected("fundChannel", sender)

openChannelAccepts(sender) ==
    /\ onlyParticipants(sender)
    /\ inState(FUNDING)
    /\ deposits[partyA] > 0 /\ deposits[partyB] > 0

openChannel(sender) ==
    IF openChannelAccepts(sender)
    THEN /\ channelState' = OPEN
         /\ lastOp' = Call("openChannel", sender, TRUE, 0, 0, 0, NoSig, NoSig, <<>>)
         /\ UNCHANGED <<channelBalance, deposits, latestNonce, revokedCommitments,
                        disputeDeadline, disputeInitiator, disputedBalanceA,
                        disputedBalanceB, disputedNonce, paid, now>>
    ELSE Rejected("openChannel", sender)

\* refundDeposits without its inState(State.FUNDING) modifier
refundDepositsAcceptsInAnyState(sender, recv) ==
    /\ now > fundingDeadline
    /\ (deposits[partyA] > 0 => recv[partyA])
    /\ (deposits[partyB] > 0 => recv[partyB])

\* refundDeposits with block.timestamp >= fundingDeadline in its require
refundDepositsAcceptsAtDeadline(sender, recv) ==
    /\ inState(FUNDING)
    /\ now >= fundingDeadline
    /\ (deposits[partyA] > 0 => recv[partyA])
    /\ (deposits[partyB] > 0 => recv[partyB])

\* recv[p] (recv, where there is one recipient): whether the transfer to p
\* succeeds, that is, p.call returns true
refundDepositsAccepts(sender, recv) ==
    /\ inState(FUNDING)
    /\ now > fundingDeadline
    /\ (deposits[partyA] > 0 => recv[partyA])
    /\ (deposits[partyB] > 0 => recv[partyB])

\* refundDeposits that sends back partyA's deposit only
refundDepositsRefundsPartyA(sender, recv) ==
    IF refundDepositsAccepts(sender, recv)
    THEN /\ deposits' = [p \in Parties |-> 0]
         /\ channelBalance' = 0
         /\ channelState' = CLOSED
         /\ paid' = [paid EXCEPT ![partyA] = @ + deposits[partyA]]
         /\ lastOp' = Call("refundDeposits", sender, TRUE, 0, 0, 0, NoSig, NoSig, <<>>)
         /\ UNCHANGED <<latestNonce, revokedCommitments, disputeDeadline,
                        disputeInitiator, disputedBalanceA, disputedBalanceB,
                        disputedNonce, now>>
    ELSE Rejected("refundDeposits", sender)

refundDeposits(sender, recv) ==
    LET refundA == deposits[partyA]
        refundB == deposits[partyB]
    IN IF refundDepositsAccepts(sender, recv)
       THEN /\ deposits' = [p \in Parties |-> 0]
            /\ channelBalance' = 0
            /\ channelState' = CLOSED
            /\ paid' = [paid EXCEPT ![partyA] = @ + refundA, ![partyB] = @ + refundB]
            /\ lastOp' = Call("refundDeposits", sender, TRUE, 0, 0, 0, NoSig, NoSig, <<>>)
            /\ UNCHANGED <<latestNonce, revokedCommitments, disputeDeadline,
                           disputeInitiator, disputedBalanceA, disputedBalanceB,
                           disputedNonce, now>>
       ELSE Rejected("refundDeposits", sender)

\* submitRevocation without the require of line 133
submitRevocationAcceptsAnySecret(sender, commitmentHash, revocationSecret) ==
    /\ onlyParticipants(sender)
    /\ inState(OPEN)

submitRevocationAccepts(sender, commitmentHash, revocationSecret) ==
    LET secretHash == Keccak(revocationSecret)
    IN /\ onlyParticipants(sender)
       /\ inState(OPEN)
       /\ secretHash = commitmentHash

submitRevocation(sender, commitmentHash, revocationSecret) ==
    IF submitRevocationAccepts(sender, commitmentHash, revocationSecret)
    THEN /\ revokedCommitments' = revokedCommitments \cup {commitmentHash}
         /\ lastOp' = Call("submitRevocation", sender, TRUE, 0, 0, 0, NoSig, NoSig,
                           commitmentHash)
         /\ UNCHANGED <<channelState, channelBalance, deposits, latestNonce,
                        disputeDeadline, disputeInitiator, disputedBalanceA,
                        disputedBalanceB, disputedNonce, paid, now>>
    ELSE Rejected("submitRevocation", sender)

\* _applyPenalty sending the balance to the cheater itself
applyPenaltyPaysCheater(cheater) ==
    /\ channelState' = CLOSED
    /\ paid' = [paid EXCEPT ![cheater] = @ + channelBalance]
    /\ UNCHANGED <<channelBalance, deposits, latestNonce, revokedCommitments,
                   disputeDeadline, disputeInitiator, disputedBalanceA,
                   disputedBalanceB, disputedNonce, now>>

\* _applyPenalty(cheater), reached after the caller's checks passed
applyPenalty(cheater) ==
    LET honestParty == IF cheater = partyA THEN partyB ELSE partyA
    IN /\ channelState' = CLOSED
       /\ paid' = [paid EXCEPT ![honestParty] = @ + channelBalance]
       /\ UNCHANGED <<channelBalance, deposits, latestNonce, revokedCommitments,
                      disputeDeadline, disputeInitiator, disputedBalanceA,
                      disputedBalanceB, disputedNonce, now>>

\* the commitment is found in revokedCommitments (initiateDispute, penalty branch)
isRevoked(nonce, balanceA, balanceB) ==
    LET commitmentHash == CommitmentHash(nonce, balanceA, balanceB)
        revocationHash == Keccak(commitmentHash)
    IN revocationHash \in revokedCommitments

\* initiateDispute without the require of line 156
initiateDisputeAcceptsAnySum(sender, nonce, balanceA, balanceB, signatureA, signatureB, recv) ==
    LET commitmentHash == CommitmentHash(nonce, balanceA, balanceB)
        ethSignedMessageHash == ToEthSignedMessageHash(commitmentHash)
        signerA == Recover(ethSignedMessageHash, signatureA)
        signerB == Recover(ethSignedMessageHash, signatureB)
    IN /\ onlyParticipants(sender)
       /\ inState(OPEN)
       /\ signerA = partyA
       /\ signerB = partyB
       /\ (isRevoked(nonce, balanceA, balanceB) => recv)

initiateDisputeAccepts(sender, nonce, balanceA, balanceB, signatureA, signatureB, recv) ==
    LET commitmentHash == CommitmentHash(nonce, balanceA, balanceB)
        ethSignedMessageHash == ToEthSignedMessageHash(commitmentHash)
        signerA == Recover(ethSignedMessageHash, signatureA)
        signerB == Recover(ethSignedMessageHash, signatureB)
    IN /\ onlyParticipants(sender)
       /\ inState(OPEN)
       /\ balanceA + balanceB = channelBalance
       /\ signerA = partyA
       /\ signerB = partyB
       /\ (isRevoked(nonce, balanceA, balanceB) => recv)

initiateDispute(sender, nonce, balanceA, balanceB, signatureA, signatureB, recv) ==
    IF initiateDisputeAccepts(sender, nonce, balanceA, balanceB, signatureA, signatureB, recv)
    THEN /\ lastOp' = Call("initiateDispute", sender, TRUE, nonce, balanceA, balanceB,
                           signatureA, signatureB, <<>>)
         /\ IF isRevoked(nonce, balanceA, balanceB)
            THEN applyPenalty(sender)
            ELSE /\ channelState' = DISPUTED
                 /\ disputeDeadline' = now + disputePeriod
                 /\ disputeInitiator' = sender
                 /\ disputedBalanceA' = balanceA
                 /\ disputedBalanceB' = balanceB
                 /\ disputedNonce' = nonce
                 /\ UNCHANGED <<channelBalance, deposits, latestNonce, revokedCommitments,
                                paid, now>>
    ELSE Rejected("initiateDispute", sender)

\* challengeDispute without the require of line 206
challengeDisputeAcceptsAnySum(sender, nonce, balanceA, balanceB, signatureA, signatureB) ==
    LET commitmentHash == CommitmentHash(nonce, balanceA, balanceB)
        ethSignedMessageHash == ToEthSignedMessageHash(commitmentHash)
        signerA == Recover(ethSignedMessageHash, signatureA)
        signerB == Recover(ethSignedMessageHash, signatureB)
    IN /\ onlyParticipants(sender)
       /\ inState(DISPUTED)
       /\ nonce > disputedNonce
       /\ signerA = partyA
       /\ signerB = partyB

\* challengeDispute with nonce >= disputedNonce for the require of line 205
challengeDisputeAcceptsEqualNonce(sender, nonce, balanceA, balanceB, signatureA, signatureB) ==
    LET commitmentHash == CommitmentHash(nonce, balanceA, balanceB)
        ethSignedMessageHash == ToEthSignedMessageHash(commitmentHash)
        signerA == Recover(ethSignedMessageHash, signatureA)
        signerB == Recover(ethSignedMessageHash, signatureB)
    IN /\ onlyParticipants(sender)
       /\ inState(DISPUTED)
       /\ nonce >= disputedNonce
       /\ balanceA + balanceB = channelBalance
       /\ signerA = partyA
       /\ signerB = partyB

challengeDisputeAccepts(sender, nonce, balanceA, balanceB, signatureA, signatureB) ==
    LET commitmentHash == CommitmentHash(nonce, balanceA, balanceB)
        ethSignedMessageHash == ToEthSignedMessageHash(commitmentHash)
        signerA == Recover(ethSignedMessageHash, signatureA)
        signerB == Recover(ethSignedMessageHash, signatureB)
    IN /\ onlyParticipants(sender)
       /\ inState(DISPUTED)
       /\ nonce > disputedNonce
       /\ balanceA + balanceB = channelBalance
       /\ signerA = partyA
       /\ signerB = partyB

challengeDispute(sender, nonce, balanceA, balanceB, signatureA, signatureB) ==
    IF challengeDisputeAccepts(sender, nonce, balanceA, balanceB, signatureA, signatureB)
    THEN /\ disputedBalanceA' = balanceA
         /\ disputedBalanceB' = balanceB
         /\ disputedNonce' = nonce
         /\ disputeInitiator' = sender
         /\ disputeDeadline' = now + disputePeriod
         /\ lastOp' = Call("challengeDispute", sender, TRUE, nonce, balanceA, balanceB,
                           signatureA, signatureB, <<>>)
         /\ UNCHANGED <<channelState, channelBalance, deposits, latestNonce,
                        revokedCommitments, paid, now>>
    ELSE Rejected("challengeDispute", sender)

proveRevocationBreachAccepts(sender, revocationSecret, recv) ==
    LET commitmentHash == CommitmentHash(disputedNonce, disputedBalanceA, disputedBalanceB)
        secretHash == Keccak(revocationSecret)
        revocationHash == Keccak(commitmentHash)
    IN /\ onlyParticipants(sender)
       /\ inState(DISPUTED)
       /\ secretHash = revocationHash
       /\ recv

proveRevocationBreach(sender, revocationSecret, recv) ==
    IF proveRevocationBreachAccepts(sender, revocationSecret, recv)
    THEN /\ applyPenalty(disputeInitiator)
         /\ lastOp' = Call("proveRevocationBreach", sender, TRUE, 0, 0, 0, NoSig, NoSig,
                           revocationSecret)
    ELSE Rejected("proveRevocationBreach", sender)

\* finalizeDispute without the require of line 255
finalizeDisputeAcceptsEarly(sender, recv) ==
    /\ inState(DISPUTED)
    /\ (disputedBalanceA > 0 => recv[partyA])
    /\ (disputedBalanceB > 0 => recv[partyB])

\* finalizeDispute that only the party that did not raise the dispute may call
finalizeDisputeAcceptsOnlyCounterparty(sender, recv) ==
    /\ inState(DISPUTED)
    /\ sender # disputeInitiator
    /\ now >= disputeDeadline
    /\ (disputedBalanceA > 0 => recv[partyA])
    /\ (disputedBalanceB > 0 => recv[partyB])

finalizeDisputeAccepts(sender, recv) ==
    /\ inState(DISPUTED)
    /\ now >= disputeDeadline
    /\ (disputedBalanceA > 0 => recv[partyA])
    /\ (disputedBalanceB > 0 => recv[partyB])

\* finalizeDispute without the requires of lines 262 and 267: a transfer that
\* fails is skipped and the call goes through
finalizeDisputeIgnoresFailure(sender, recv) ==
    IF inState(DISPUTED) /\ now >= disputeDeadline
    THEN /\ channelState' = CLOSED
         /\ paid' = [paid EXCEPT
                        ![partyA] = IF recv[partyA] THEN @ + disputedBalanceA ELSE @,
                        ![partyB] = IF recv[partyB] THEN @ + disputedBalanceB ELSE @]
         /\ lastOp' = Call("finalizeDispute", sender, TRUE, 0, 0, 0, NoSig, NoSig, <<>>)
         /\ UNCHANGED <<channelBalance, deposits, latestNonce, revokedCommitments,
                        disputeDeadline, disputeInitiator, disputedBalanceA,
                        disputedBalanceB, disputedNonce, now>>
    ELSE Rejected("finalizeDispute", sender)

finalizeDispute(sender, recv) ==
    IF finalizeDisputeAccepts(sender, recv)
    THEN /\ channelState' = CLOSED
         /\ paid' = [paid EXCEPT ![partyA] = @ + disputedBalanceA,
                                 ![partyB] = @ + disputedBalanceB]
         /\ lastOp' = Call("finalizeDispute", sender, TRUE, 0, 0, 0, NoSig, NoSig, <<>>)
         /\ UNCHANGED <<channelBalance, deposits, latestNonce, revokedCommitments,
                        disputeDeadline, disputeInitiator, disputedBalanceA,
                        disputedBalanceB, disputedNonce, now>>
    ELSE Rejected("finalizeDispute", sender)

cooperativeCloseAccepts(sender, balanceA, balanceB, signatureA, signatureB, recv) ==
    LET closeHash == CloseHash(balanceA, balanceB)
        ethSignedCloseHash == ToEthSignedMessageHash(closeHash)
        signerA == Recover(ethSignedCloseHash, signatureA)
        signerB == Recover(ethSignedCloseHash, signatureB)
    IN /\ onlyParticipants(sender)
       /\ inState(OPEN)
       /\ balanceA + balanceB = channelBalance
       /\ signerA = partyA
       /\ signerB = partyB
       /\ (balanceA > 0 => recv[partyA])
       /\ (balanceB > 0 => recv[partyB])

\* cooperativeClose with the two transfers of lines 305 and 310 exchanged
cooperativeCloseSwapsPayout(sender, balanceA, balanceB, signatureA, signatureB, recv) ==
    IF cooperativeCloseAccepts(sender, balanceA, balanceB, signatureA, signatureB, recv)
    THEN /\ channelState' = CLOSED
         /\ paid' = [paid EXCEPT ![partyA] = @ + balanceB, ![partyB] = @ + balanceA]
         /\ lastOp' = Call("cooperativeClose", sender, TRUE, 0, balanceA, balanceB,
                           signatureA, signatureB, <<>>)
         /\ UNCHANGED <<channelBalance, deposits, latestNonce, revokedCommitments,
                        disputeDeadline, disputeInitiator, disputedBalanceA,
                        disputedBalanceB, disputedNonce, now>>
    ELSE Rejected("cooperativeClose", sender)

cooperativeClose(sender, balanceA, balanceB, signatureA, signatureB, recv) ==
    IF cooperativeCloseAccepts(sender, balanceA, balanceB, signatureA, signatureB, recv)
    THEN /\ channelState' = CLOSED
         /\ paid' = [paid EXCEPT ![partyA] = @ + balanceA, ![partyB] = @ + balanceB]
         /\ lastOp' = Call("cooperativeClose", sender, TRUE, 0, balanceA, balanceB,
                           signatureA, signatureB, <<>>)
         /\ UNCHANGED <<channelBalance, deposits, latestNonce, revokedCommitments,
                        disputeDeadline, disputeInitiator, disputedBalanceA,
                        disputedBalanceB, disputedNonce, now>>
    ELSE Rejected("cooperativeClose", sender)

\* block.timestamp advances between transactions
Tick ==
    /\ now < MaxTime
    /\ now' = now + 1
    /\ lastOp' = Call("tick", Stranger, TRUE, 0, 0, 0, NoSig, NoSig, <<>>)
    /\ UNCHANGED chainVars

\* ------------------------------------------------------------------------
\* The channel CLI: each party's ledger (StateManager) and the commands of
\* the off-chain commitment exchange
\* ------------------------------------------------------------------------
\* crypto.randomBytes(32): the k-th preimage party p draws for a nonce
Preimage(p, nonce, k) == <<"preimage", nonce, k, IF p = partyA THEN 0 ELSE 1>>

\* StateManager.getCommitment
getCommitment(p, nonce) ==
    IF nonce \in 1..MaxNonce THEN commitments[p][nonce] ELSE NoCommitment

Exists(c) == c.nonce # 0

\* the object spread {...existing, ...commitment} of saveCommitment: the fields
\* the new record carries replace the existing ones, the others are kept
Merge(existing, commitment, carried) ==
    [f \in DOMAIN existing |-> IF f \in carried THEN commitment[f] ELSE existing[f]]

\* StateManager.saveCommitment followed by its updateChannelState
saveCommitment(p, commitment, carried) ==
    /\ commitments' = [commitments EXCEPT ![p][commitment.nonce] =
                          IF Exists(@) THEN Merge(@, commitment, carried) ELSE commitment]
    /\ states' = [states EXCEPT ![p] = [nonce |-> commitment.nonce,
                                        balanceA |-> commitment.balanceA,
                                        balanceB |-> commitment.balanceB]]

\* markCommitmentRevoked without line 202: the secret is stored, the flag is not set
markCommitmentRevokedKeepsFlag(list, nonce, revocationSecret) ==
    IF nonce \in 1..MaxNonce /\ Exists(list[nonce])
    THEN [list EXCEPT ![nonce].revocationSecret = revocationSecret]
    ELSE list

\* StateManager.markCommitmentRevoked applied to a party's commitment list
markCommitmentRevoked(list, nonce, revocationSecret) ==
    IF nonce \in 1..MaxNonce /\ Exists(list[nonce])
    THEN [list EXCEPT ![nonce].revoked = TRUE, ![nonce].revocationSecret = revocationSecret]
    ELSE list

\* the record of a CLI command: its name, who ran it, whether it went through
Command(name, p, ok) == Call(name, p, ok, 0, 0, 0, NoSig, NoSig, <<>>)

\* fund-channel (and the funding of create-channel): the fundChannel
\* transaction, then the caller's own balance in its ledger
fundChannelCmd(p, amount) ==
    /\ fundChannel(p, amount)
    /\ IF fundChannelAccepts(p, amount)
       THEN LET currentState == IF states[p] = NoState
                                THEN [nonce |-> 0, balanceA |-> 0, balanceB |-> 0]
                                ELSE states[p]
            IN states' = [states EXCEPT ![p] =
                  IF p = partyA
                  THEN [currentState EXCEPT !.balanceA = @ + amount]
                  ELSE [currentState EXCEPT !.balanceB = @ + amount]]
       ELSE UNCHANGED states
    /\ UNCHANGED <<commitments, contentVars, storeVars, guardVars>>

\* PaymentManager.createCommitment
createCommitment(p, nonce, paymentAmount, currentBalanceA, currentBalanceB, k) ==
    LET newBalanceA == currentBalanceA - paymentAmount
        newBalanceB == currentBalanceB + paymentAmount
        commitmentHash == CommitmentHash(nonce, newBalanceA, newBalanceB)
    IN [nonce |-> nonce, balanceA |-> newBalanceA, balanceB |-> newBalanceB,
        signature |-> SignMessage(p, commitmentHash),
        counterpartySignature |-> NoSig,
        revocationPreimage |-> Preimage(p, nonce, k),
        revocationHash |-> Keccak(Preimage(p, nonce, k)),
        counterpartyRevocationHash |-> None,
        revoked |-> FALSE, revocationSecret |-> None, generation |-> k]

\* the fields of the record that send-payment passes to saveCommitment
SentFields == {"nonce", "balanceA", "balanceB", "signature", "revocationPreimage",
               "revocationHash", "generation"}

\* send-payment
sendPayment(p, amount) ==
    LET currentState == states[p]
        nonce == currentState.nonce + 1
        k == getCommitment(p, nonce).generation + 1
        commitment == createCommitment(p, nonce, amount, currentState.balanceA,
                                       currentState.balanceB, k)
        ok == /\ currentState # NoState
              /\ currentState.balanceA - amount >= 0
    IN /\ nonce <= MaxNonce
       /\ lastOp' = Command("send-payment", p, ok)
       /\ IF ok
          THEN saveCommitment(p, commitment, SentFields)
          ELSE UNCHANGED ledgerVars
       /\ UNCHANGED <<chainVars, now, contentVars, storeVars, guardVars>>

\* The serialized commitment that send-payment (or list-commitments) prints
\* for a record of the sender's ledger
Serialized(c) ==
    [nonce |-> c.nonce, balanceA |-> c.balanceA, balanceB |-> c.balanceB,
     hash |-> CommitmentHash(c.nonce, c.balanceA, c.balanceB),
     signature |-> c.signature, revocationHash |-> c.revocationHash]

\* the fields of the record that sign-commitment passes to saveCommitment
SignedFields == {"nonce", "balanceA", "balanceB", "signature", "counterpartySignature",
                 "revocationPreimage", "revocationHash", "counterpartyRevocationHash",
                 "generation"}

\* what sign-commitment prints for the initiator
SignedCommitment(incoming, mySignature, myRevocationHash, previousRevocationSecret) ==
    [nonce |-> incoming.nonce, balanceA |-> incoming.balanceA,
     balanceB |-> incoming.balanceB, hash |-> incoming.hash,
     counterpartySignature |-> mySignature,
     counterpartyRevocationHash |-> myRevocationHash,
     previousRevocationSecret |-> previousRevocationSecret]

\* sign-commitment without the comparison of line 317
signCommitmentAcceptsAnyHash(incoming) == TRUE

\* sign-commitment goes on to sign: the hash it recomputes is the one received
signCommitmentAccepts(incoming) ==
    LET expectedHash == CommitmentHash(incoming.nonce, incoming.balanceA, incoming.balanceB)
    IN expectedHash = incoming.hash

\* sign-commitment
signCommitment(p, incoming) ==
    LET ok == signCommitmentAccepts(incoming)
        mySignature == SignMessage(p, incoming.hash)
        k == getCommitment(p, incoming.nonce).generation + 1
        myRevocationPreimage == Preimage(p, incoming.nonce, k)
        myRevocationHash == Keccak(myRevocationPreimage)
        previousNonce == incoming.nonce - 1
        previousCommitment == getCommitment(p, previousNonce)
        previousRevocationSecret ==
            IF previousNonce >= 1 /\ Exists(previousCommitment)
               /\ previousCommitment.revocationPreimage # None
            THEN previousCommitment.revocationPreimage
            ELSE None
        record == [nonce |-> incoming.nonce, balanceA |-> incoming.balanceA,
                   balanceB |-> incoming.balanceB, signature |-> mySignature,
                   counterpartySignature |-> incoming.signature,
                   revocationPreimage |-> myRevocationPreimage,
                   revocationHash |-> myRevocationHash,
                   counterpartyRevocationHash |-> incoming.revocationHash,
                   revoked |-> FALSE, revocationSecret |-> None, generation |-> k]
        saved == [commitments[p] EXCEPT ![incoming.nonce] =
                     IF Exists(@) THEN Merge(@, record, SignedFields) ELSE record]
    IN /\ lastOp' = Command("sign-commitment", p, ok)
       /\ IF ok
          THEN /\ commitments' = [commitments EXCEPT ![p] =
                     IF previousRevocationSecret # None
                     THEN markCommitmentRevoked(saved, previousNonce, previousRevocationSecret)
                     ELSE saved]
               /\ states' = [states EXCEPT ![p] = [nonce |-> incoming.nonce,
                                                   balanceA |-> incoming.balanceA,
                                                   balanceB |-> incoming.balanceB]]
          ELSE UNCHANGED ledgerVars
       /\ UNCHANGED <<chainVars, now, contentVars, storeVars, guardVars>>

\* The response sign-commitment printed, as it reads from the signer's ledger
ResponseOf(q, nonce) ==
    LET c == getCommitment(q, nonce)
        previous == getCommitment(q, nonce - 1)
    IN SignedCommitment(Serialized(c), c.signature, c.revocationHash,
                        IF Exists(previous) THEN previous.revocationPreimage ELSE None)

\* StateManager.getCommitment on a party's commitment list
Lookup(list, nonce) == IF nonce \in 1..MaxNonce THEN list[nonce] ELSE NoCommitment

\* finalize-commitment: the commitment list it leaves, for a response whose
\* commitment the list holds
finalized(list, signed) ==
    LET previousNonce == signed.nonce - 1
        previousCommitment == Lookup(list, previousNonce)
        verified == /\ signed.previousRevocationSecret # None
                    /\ previousNonce >= 1
                    /\ Exists(previousCommitment)
                    /\ previousCommitment.counterpartyRevocationHash # None
                    /\ Keccak(signed.previousRevocationSecret)
                          = previousCommitment.counterpartyRevocationHash
        list1 == IF verified
                 THEN markCommitmentRevoked(list, previousNonce,
                                            signed.previousRevocationSecret)
                 ELSE list
        list2 == [list1 EXCEPT
                    ![signed.nonce].counterpartySignature = signed.counterpartySignature,
                    ![signed.nonce].counterpartyRevocationHash =
                        IF signed.counterpartyRevocationHash # None
                        THEN signed.counterpartyRevocationHash ELSE @]
        myPreviousCommitment == Lookup(list2, previousNonce)
        myPreviousSecret ==
            IF previousNonce >= 1 /\ Exists(myPreviousCommitment)
               /\ myPreviousCommitment.revocationPreimage # None
            THEN myPreviousCommitment.revocationPreimage
            ELSE None
    IN IF myPreviousSecret # None
       THEN markCommitmentRevoked(list2, previousNonce, myPreviousSecret)
       ELSE list2

\* finalize-commitment
finalizeCommitment(p, signed) ==
    LET existing == getCommitment(p, signed.nonce)
        ok == Exists(existing)
    IN /\ lastOp' = Command("finalize-commitment", p, ok)
       /\ IF ok
          THEN commitments' = [commitments EXCEPT ![p] = finalized(@, signed)]
          ELSE UNCHANGED commitments
       /\ UNCHANGED <<states, chainVars, now, contentVars, storeVars, guardVars>>

\* receive-revocation that refuses a commitment already marked revoked
revocationVerifiedUnlessRevoked(list, response) ==
    LET revokedNonce == response.nonce - 1
        revokedCommitment == Lookup(list, revokedNonce)
    IN /\ revokedNonce >= 1
       /\ Exists(revokedCommitment)
       /\ ~revokedCommitment.revoked
       /\ revokedCommitment.counterpartyRevocationHash # None
       /\ Keccak(response.previousRevocationSecret)
             = revokedCommitment.counterpartyRevocationHash

\* receive-revocation finds the commitment to revoke and the secret opens the
\* counterparty's hash stored with it
revocationVerified(list, response) ==
    LET revokedNonce == response.nonce - 1
        revokedCommitment == Lookup(list, revokedNonce)
    IN /\ revokedNonce >= 1
       /\ Exists(revokedCommitment)
       /\ revokedCommitment.counterpartyRevocationHash # None
       /\ Keccak(response.previousRevocationSecret)
             = revokedCommitment.counterpartyRevocationHash

\* receive-revocation: the commitment list it leaves
revocationReceived(list, response) ==
    IF revocationVerified(list, response)
    THEN markCommitmentRevoked(list, response.nonce - 1, response.previousRevocationSecret)
    ELSE list

\* receive-revocation
receiveRevocation(p, response) ==
    LET ok == revocationVerified(commitments[p], response)
    IN /\ lastOp' = Command("receive-revocation", p, ok)
       /\ commitments' = [commitments EXCEPT ![p] = revocationReceived(@, response)]
       /\ UNCHANGED <<states, chainVars, now, contentVars, storeVars, guardVars>>

\* ------------------------------------------------------------------------
\* The content server of encrypted-content-example.js: bob's
\* RevocationKeyManager and the endpoints /request-content and
\* /submit-commitment.  The revocation secret of an invoice is the key of the
\* content the invoice sells.
\* ------------------------------------------------------------------------
\* largest number of commitments the server stores
MaxStored == 2

\* keccak256(solidityPacked(['bytes32', 'uint256'], [this.seed, nonce]))
SecretOf(nonce) == Keccak(<<"bob-server-seed", nonce>>)

\* keccak256(solidityPacked(['address', 'uint256', 'uint256', 'uint256',
\* 'bytes32', 'bytes32'], [channel, nonce, balanceA, balanceB, revHashA, revHashB]))
ExampleCommitmentHash(nonce, balanceA, balanceB, revHashA, revHashB) ==
    <<"commitment", nonce, balanceA, balanceB, revHashA, revHashB>>

serverVars == <<pendingInvoices, channels, released>>

\* RevocationKeyManager.generateSecret
generateSecret(nonce) ==
    LET secret == SecretOf(nonce)
    IN /\ secrets' = [secrets EXCEPT ![nonce] = secret]
       /\ reply' = Respond("generateSecret", nonce, TRUE, secret)
       /\ UNCHANGED <<revealedSecrets, serverVars>>

\* RevocationKeyManager.generateRevocationHash
generateRevocationHash(nonce) ==
    LET secret == SecretOf(nonce)
    IN /\ secrets' = [secrets EXCEPT ![nonce] = secret]
       /\ reply' = Respond("generateRevocationHash", nonce, TRUE, Keccak(secret))
       /\ UNCHANGED <<revealedSecrets, serverVars>>

\* RevocationKeyManager.revealSecret
revealSecret(nonce) ==
    LET secret == secrets[nonce]
    IN IF secret = None
       THEN /\ reply' = Respond("revealSecret", nonce, FALSE, "No secret found")
            /\ UNCHANGED <<secrets, revealedSecrets, serverVars>>
       ELSE /\ revealedSecrets' = [revealedSecrets EXCEPT ![nonce] = secret]
            /\ secrets' = [secrets EXCEPT ![nonce] = None]
            /\ reply' = Respond("revealSecret", nonce, TRUE, secret)
            /\ UNCHANGED serverVars

\* POST /request-content
requestContent(contentId, currentNonce, aliceAddress, currentAliceBalance, currentBobBalance) ==
    IF contentId \notin ContentIds
    THEN /\ reply' = Respond("request-content", contentId, FALSE, "Content not found")
         /\ UNCHANGED <<secrets, revealedSecrets, serverVars>>
    ELSE LET price == contentCatalog[contentId]
             newNonce == currentNonce + 1
             newAliceBalance == currentAliceBalance - price
             newBobBalance == currentBobBalance + price
             bobRevocationSecret == SecretOf(newNonce)
             bobRevocationHash == Keccak(bobRevocationSecret)
             commitment == [nonce |-> newNonce, aliceBalance |-> newAliceBalance,
                            bobBalance |-> newBobBalance,
                            bobRevocationHash |-> bobRevocationHash]
             invoiceId == InvoiceId(newNonce, contentId)
             invoice == [contentId |-> contentId, nonce |-> newNonce, price |-> price,
                         bobRevocationSecret |-> bobRevocationSecret,
                         bobRevocationHash |-> bobRevocationHash,
                         aliceAddress |-> aliceAddress, commitment |-> commitment]
         IN /\ secrets' = [secrets EXCEPT ![newNonce] = bobRevocationSecret]
            /\ pendingInvoices' = [pendingInvoices EXCEPT ![invoiceId] = invoice]
            /\ reply' = Respond("request-content", invoiceId, TRUE, commitment)
            /\ UNCHANGED <<revealedSecrets, channels, released>>

\* POST /submit-commitment
submitCommitment(invoiceId, commitment, aliceSignature, aliceRevocationHash) ==
    LET invoice == pendingInvoices[invoiceId]
        commitmentHash == ExampleCommitmentHash(commitment.nonce, commitment.aliceBalance,
                                                commitment.bobBalance, aliceRevocationHash,
                                                invoice.bobRevocationHash)
        recoveredAddress == Recover(ToEthSignedMessageHash(commitmentHash), aliceSignature)
        bobSignature == SignMessage(bob, commitmentHash)
        revocationSecret == invoice.bobRevocationSecret
    IN IF invoice = NoInvoice
       THEN /\ reply' = Respond("submit-commitment", invoiceId, FALSE,
                                   "Invoice not found or expired")
            /\ UNCHANGED <<secrets, revealedSecrets, serverVars>>
       ELSE IF recoveredAddress # invoice.aliceAddress
       THEN /\ reply' = Respond("submit-commitment", invoiceId, FALSE, "Invalid signature")
            /\ UNCHANGED <<secrets, revealedSecrets, serverVars>>
       ELSE /\ channels' = [commitments |->
                                Append(channels.commitments,
                                       [nonce |-> commitment.nonce, hash |-> commitmentHash,
                                        aliceBalance |-> commitment.aliceBalance,
                                        bobBalance |-> commitment.bobBalance,
                                        aliceSignature |-> aliceSignature,
                                        bobSignature |-> bobSignature]),
                            latestNonce |-> commitment.nonce]
            /\ pendingInvoices' = [pendingInvoices EXCEPT ![invoiceId] = NoInvoice]
            /\ released' = [released EXCEPT ![invoiceId] = @ + 1]
            /\ reply' = Respond("submit-commitment", invoiceId, TRUE,
                                   [commitment |-> commitment, issued |-> invoice.commitment,
                                    bobSignature |-> bobSignature,
                                    revocationSecret |-> revocationSecret])
            /\ UNCHANGED <<secrets, revealedSecrets>>

\* the revocation hash alice draws for a nonce
AliceRevocationHash(nonce) == Keccak(Keccak(<<"alice-seed", nonce>>))

\* the commitment of an invoice with the balances before the payment
Unpaid(invoice) ==
    [invoice.commitment EXCEPT !.aliceBalance = @ + invoice.price,
                               !.bobBalance = @ - invoice.price]

\* the commitment of an invoice under the nonce before it
Renumbered(invoice) == [invoice.commitment EXCEPT !.nonce = @ - 1]

\* the commitments a buyer can submit for an invoice: the one the server
\* issued, or that one with the balances or the nonce replaced
Submissions(invoiceId) ==
    LET invoice == pendingInvoices[invoiceId]
    IN {invoice.commitment, Unpaid(invoice), Renumbered(invoice)}

\* the signatures a submission can carry: alice's or somebody else's over the
\* hash of the submitted commitment
SubmissionSignatures(invoiceId, commitment) ==
    LET h == ExampleCommitmentHash(commitment.nonce, commitment.aliceBalance,
                                   commitment.bobBalance,
                                   AliceRevocationHash(commitment.nonce),
                                   pendingInvoices[invoiceId].bobRevocationHash)
    IN {SignMessage(alice, h), SignMessage(Stranger, h)}

ContentNext ==
    \/ \E nonce \in KeyNonces :
          /\ generateSecret(nonce)
          /\ UNCHANGED <<chainVars, now, lastOp, ledgerVars, storeVars, guardVars>>
    \/ \E nonce \in KeyNonces :
          /\ generateRevocationHash(nonce)
          /\ UNCHANGED <<chainVars, now, lastOp, ledgerVars, storeVars, guardVars>>
    \/ \E nonce \in KeyNonces :
          /\ revealSecret(nonce)
          /\ UNCHANGED <<chainVars, now, lastOp, ledgerVars, storeVars, guardVars>>
    \/ \E contentId \in ContentIds \cup {"content-0"}, currentNonce \in 0..(MaxNonce - 1) :
          /\ requestContent(contentId, currentNonce, alice, MaxBalance, 0)
          /\ UNCHANGED <<chainVars, now, lastOp, ledgerVars, storeVars, guardVars>>
    \/ \E invoiceId \in InvoiceIds : \E commitment \in Submissions(invoiceId) :
          \E aliceSignature \in SubmissionSignatures(invoiceId, commitment) :
             /\ Len(channels.commitments) < MaxStored
             /\ submitCommitment(invoiceId, commitment, aliceSignature,
                                 AliceRevocationHash(commitment.nonce))
             /\ UNCHANGED <<chainVars, now, lastOp, ledgerVars, storeVars, guardVars>>

SpecContent == Init /\ [][ContentNext]_vars

\* ------------------------------------------------------------------------
\* The ledger files of one party with two channels.  Every StateManager
\* operation reads a whole file (loadJSON), changes the entry of its channel
\* and writes the whole file back (saveJSON); each of the two is awaited, so
\* that the operations of two CLI processes interleave between a read and
\* the write that follows it.  Process P1 works on channel X, process P2 on
\* channel Y.
\* ------------------------------------------------------------------------
\* operations a process runs
MaxOps == 2

\* the commitment of a nonce that a process saves
StoredCommitment(nonce) ==
    [nonce |-> nonce, balanceA |-> MaxBalance - nonce, balanceB |-> nonce,
     revoked |-> FALSE, revocationSecret |-> None]

\* findIndex(c => c.nonce === nonce): 0 when there is none
IndexOf(list, nonce) ==
    LET hits == {i \in 1..Len(list) : list[i].nonce = nonce}
    IN IF hits = {} THEN 0 ELSE CHOOSE i \in hits : \A j \in hits : i <= j

\* saveCommitment: the commitments file it writes, from the file it loaded
savedCommitments(file, ch, commitment) ==
    LET existingIndex == IndexOf(file[ch], commitment.nonce)
    IN [file EXCEPT ![ch] =
          IF existingIndex > 0
          THEN [@ EXCEPT ![existingIndex].balanceA = commitment.balanceA,
                         ![existingIndex].balanceB = commitment.balanceB]
          ELSE Append(@, commitment)]

\* updateChannelState: the states file it writes, from the file it loaded
updatedStates(file, ch, newState) ==
    LET old == file[ch]
    IN [file EXCEPT ![ch] =
          [f \in DOMAIN old |-> IF f \in DOMAIN newState THEN newState[f] ELSE old[f]]]

\* markCommitmentRevoked: the commitments file it writes, from the file it loaded
markedRevoked(file, ch, nonce, revocationSecret) ==
    LET index == IndexOf(file[ch], nonce)
    IN IF index > 0
       THEN [file EXCEPT ![ch][index].revoked = TRUE,
                         ![ch][index].revocationSecret = revocationSecret]
       ELSE file

Idle(proc) == process[proc].pc = "idle" /\ process[proc].done < MaxOps

\* saveCommitment up to its loadJSON
saveCommitmentLoad(proc, commitment) ==
    /\ Idle(proc)
    /\ process' = [process EXCEPT ![proc] = [@ EXCEPT !.pc = "saveCommitment",
                                                      !.arg = commitment,
                                                      !.loaded = commitmentsFile]]
    /\ UNCHANGED <<commitmentsFile, statesFile, sequential>>

\* saveCommitment from its loadJSON to its saveJSON
saveCommitmentSave(proc) ==
    LET ch == ChannelOf(proc)
        commitment == process[proc].arg
    IN /\ process[proc].pc = "saveCommitment"
       /\ commitmentsFile' = savedCommitments(process[proc].loaded, ch, commitment)
       /\ sequential' = [sequential EXCEPT !.commitments = savedCommitments(@, ch, commitment)]
       /\ process' = [process EXCEPT ![proc] =
                         [@ EXCEPT !.pc = "saveCommitment.updateChannelState",
                                   !.arg = [nonce |-> commitment.nonce,
                                            balanceA |-> commitment.balanceA,
                                            balanceB |-> commitment.balanceB]]]
       /\ UNCHANGED statesFile

\* updateChannelState up to its loadJSON, called by saveCommitment or by a
\* command
updateChannelStateLoad(proc, newState) ==
    /\ Idle(proc) \/ process[proc].pc = "saveCommitment.updateChannelState"
    /\ process' = [process EXCEPT ![proc] =
                      [@ EXCEPT !.pc = "updateChannelState",
                                !.arg = IF process[proc].pc = "idle" THEN newState ELSE @,
                                !.loaded = statesFile]]
    /\ UNCHANGED <<commitmentsFile, statesFile, sequential>>

\* updateChannelState from its loadJSON to its saveJSON
updateChannelStateSave(proc) ==
    LET ch == ChannelOf(proc)
        newState == process[proc].arg
    IN /\ process[proc].pc = "updateChannelState"
       /\ statesFile' = updatedStates(process[proc].loaded, ch, newState)
       /\ sequential' = [sequential EXCEPT !.states = updatedStates(@, ch, newState)]
       /\ process' = [process EXCEPT ![proc] = [@ EXCEPT !.pc = "idle", !.done = @ + 1]]
       /\ UNCHANGED commitmentsFile

\* markCommitmentRevoked up to its loadJSON
markCommitmentRevokedLoad(proc, nonce) ==
    /\ Idle(proc)
    /\ process' = [process EXCEPT ![proc] = [@ EXCEPT !.pc = "markCommitmentRevoked",
                                                      !.arg = nonce,
                                                      !.loaded = commitmentsFile]]
    /\ UNCHANGED <<commitmentsFile, statesFile, sequential>>

\* markCommitmentRevoked from its loadJSON to its saveJSON
markCommitmentRevokedSave(proc) ==
    LET ch == ChannelOf(proc)
        nonce == process[proc].arg
        revocationSecret == Preimage(partyA, nonce, 1)
    IN /\ process[proc].pc = "markCommitmentRevoked"
       /\ commitmentsFile' = markedRevoked(process[proc].loaded, ch, nonce, revocationSecret)
       /\ sequential' = [sequential EXCEPT
                            !.commitments = markedRevoked(@, ch, nonce, revocationSecret)]
       /\ process' = [process EXCEPT ![proc] = [@ EXCEPT !.pc = "idle", !.done = @ + 1]]
       /\ UNCHANGED statesFile

StoreNext ==
    \/ \E proc \in Processes, nonce \in 1..MaxNonce :
          /\ saveCommitmentLoad(proc, StoredCommitment(nonce))
          /\ UNCHANGED <<chainVars, now, lastOp, ledgerVars, contentVars, guardVars>>
    \/ \E proc \in Processes :
          /\ saveCommitmentSave(proc)
          /\ UNCHANGED <<chainVars, now, lastOp, ledgerVars, contentVars, guardVars>>
    \/ \E proc \in Processes, balanceA \in 1..MaxBalance :
          /\ updateChannelStateLoad(proc, [balanceA |-> balanceA])
          /\ UNCHANGED <<chainVars, now, lastOp, ledgerVars, contentVars, guardVars>>
    \/ \E proc \in Processes :
          /\ updateChannelStateSave(proc)
          /\ UNCHANGED <<chainVars, now, lastOp, ledgerVars, contentVars, guardVars>>
    \/ \E proc \in Processes, nonce \in 1..MaxNonce :
          /\ markCommitmentRevokedLoad(proc, nonce)
          /\ UNCHANGED <<chainVars, now, lastOp, ledgerVars, contentVars, guardVars>>
    \/ \E proc \in Processes :
          /\ markCommitmentRevokedSave(proc)
          /\ UNCHANGED <<chainVars, now, lastOp, ledgerVars, contentVars, guardVars>>

SpecStore == Init /\ [][StoreNext]_vars

\* ------------------------------------------------------------------------
\* Inputs of the calls
\* ------------------------------------------------------------------------
Nonces == 0..MaxNonce
Balances == 0..MaxBalance
Recv == [Parties -> BOOLEAN]

\* Signature pairs <<signatureA, signatureB>> a caller can present with the
\* payload h: both parties' signatures over h, or one of the two replaced by
\* the other party's signature over h or by the right party's signature over
\* the other payload g, or both parties' signatures over g
SignatureInputs(h, g) ==
    {<<SignMessage(partyA, h), SignMessage(partyB, h)>>,
     <<SignMessage(partyB, h), SignMessage(partyB, h)>>,
     <<SignMessage(partyA, h), SignMessage(partyA, h)>>,
     <<SignMessage(partyA, g), SignMessage(partyB, h)>>,
     <<SignMessage(partyA, h), SignMessage(partyB, g)>>,
     <<SignMessage(partyA, g), SignMessage(partyB, g)>>}

\* Values a participant can present as a revocation secret: the hash of a
\* commitment (computable from public data) or an off-chain preimage

SecretInputs ==
    {CommitmentHash(n, a, channelBalance - a) : n \in 1..MaxNonce, a \in 0..channelBalance}
    \cup {Preimage(partyA, 1, 1)}

\* Balances a caller can present: every split of the channel balance, and
\* the splits of one unit more
BalanceInputs ==
    {<<a, b>> \in Balances \X Balances : a + b \in {channelBalance, channelBalance + 1}}

\* In a state where the function's inState modifier fails every input is
\* rejected alike, so one input stands for all of them there
When(s, inputs, one) == IF inState(s) THEN inputs ELSE {one}

Next ==
    \/ \E s \in When(FUNDING, Callers, partyA), v \in When(FUNDING, 0..MaxValue, 1) :
          /\ fundChannelAccepts(s, v) => channelBalance + v <= MaxBalance
          /\ fundChannel(s, v)
          /\ UNCHANGED <<ledgerVars, contentVars, storeVars, guardVars>>
    \/ \E s \in When(FUNDING, Callers, partyA) :
          /\ openChannel(s)
          /\ UNCHANGED <<ledgerVars, contentVars, storeVars, guardVars>>
    \/ \E s \in When(FUNDING, Callers, partyA),
          recv \in When(FUNDING, Recv, [p \in Parties |-> TRUE]) :
          /\ refundDeposits(s, recv)
          /\ UNCHANGED <<ledgerVars, contentVars, storeVars, guardVars>>
    \/ \E s \in When(OPEN, Callers, partyA),
          secret \in When(OPEN, SecretInputs, Preimage(partyA, 1, 1)),
          matching \in When(OPEN, BOOLEAN, TRUE) :
          /\ submitRevocationAccepts(s, IF matching THEN Keccak(secret) ELSE secret, secret)
                => Cardinality(revokedCommitments \cup {Keccak(secret)}) <= MaxRevoked
          /\ submitRevocation(s, IF matching THEN Keccak(secret) ELSE secret, secret)
          /\ UNCHANGED <<ledgerVars, contentVars, storeVars, guardVars>>
    \/ \E s \in When(OPEN, Callers, partyA), n \in When(OPEN, Nonces, 0),
          bal \in When(OPEN, BalanceInputs, <<0, 0>>), recv \in When(OPEN, BOOLEAN, TRUE) :
          \E sigs \in When(OPEN, SignatureInputs(CommitmentHash(n, bal[1], bal[2]),
                                                 CloseHash(bal[1], bal[2])),
                           <<NoSig, NoSig>>) :
             /\ initiateDispute(s, n, bal[1], bal[2], sigs[1], sigs[2], recv)
             /\ UNCHANGED <<ledgerVars, contentVars, storeVars, guardVars>>
    \/ \E s \in When(DISPUTED, Callers, partyA), n \in When(DISPUTED, Nonces, 0),
          bal \in When(DISPUTED, BalanceInputs, <<0, 0>>) :
          \E sigs \in When(DISPUTED, SignatureInputs(CommitmentHash(n, bal[1], bal[2]),
                                                     CloseHash(bal[1], bal[2])),
                           <<NoSig, NoSig>>) :
             /\ challengeDispute(s, n, bal[1], bal[2], sigs[1], sigs[2])
             /\ UNCHANGED <<ledgerVars, contentVars, storeVars, guardVars>>
    \/ \E s \in When(DISPUTED, Callers, partyA),
          secret \in When(DISPUTED, SecretInputs, Preimage(partyA, 1, 1)),
          recv \in When(DISPUTED, BOOLEAN, TRUE) :
          /\ proveRevocationBreach(s, secret, recv)
          /\ UNCHANGED <<ledgerVars, contentVars, storeVars, guardVars>>
    \/ \E s \in When(DISPUTED, Callers, partyA),
          recv \in When(DISPUTED, Recv, [p \in Parties |-> TRUE]) :
          /\ finalizeDispute(s, recv)
          /\ UNCHANGED <<ledgerVars, contentVars, storeVars, guardVars>>
    \/ \E s \in When(OPEN, Callers, partyA),
          bal \in When(OPEN, BalanceInputs, <<0, 0>>),
          recv \in When(OPEN, Recv, [p \in Parties |-> TRUE]) :
          \E sigs \in When(OPEN, SignatureInputs(CloseHash(bal[1], bal[2]),
                                                 CommitmentHash(1, bal[1], bal[2])),
                           <<NoSig, NoSig>>) :
             /\ cooperativeClose(s, bal[1], bal[2], sigs[1], sigs[2], recv)
             /\ UNCHANGED <<ledgerVars, contentVars, storeVars, guardVars>>
    \/ /\ Tick
       /\ UNCHANGED <<ledgerVars, contentVars, storeVars, guardVars>>

Spec == Init /\ [][Next]_vars

\* ------------------------------------------------------------------------
\* Unilateral exit: a party raises a dispute and the counterparty does
\* nothing from then on (no challengeDispute, no proveRevocationBreach).  Time
\* passes, and the party that raised the dispute calls finalizeDispute once it
\* is accepted; every transfer succeeds.  A dispute is raised while its
\* deadline lies within the time the model covers.
\* ------------------------------------------------------------------------
\* the party that raised the dispute finalizes it
ExitFinalize ==
    /\ finalizeDisputeAccepts(disputeInitiator, [p \in Parties |-> TRUE])
    /\ finalizeDispute(disputeInitiator, [p \in Parties |-> TRUE])
    /\ UNCHANGED <<ledgerVars, contentVars, storeVars, guardVars>>

ExitNext ==
    \/ \E s \in Parties, v \in 1..MaxValue :
          /\ inState(FUNDING)
          /\ fundChannelAccepts(s, v) => channelBalance + v <= MaxBalance
          /\ fundChannel(s, v)
          /\ UNCHANGED <<ledgerVars, contentVars, storeVars, guardVars>>
    \/ \E s \in Parties :
          /\ inState(FUNDING)
          /\ openChannel(s)
          /\ UNCHANGED <<ledgerVars, contentVars, storeVars, guardVars>>
    \/ \E s \in Parties, secret \in SecretInputs :
          /\ inState(OPEN)
          /\ Cardinality(revokedCommitments \cup {Keccak(secret)}) <= MaxRevoked
          /\ submitRevocation(s, Keccak(secret), secret)
          /\ UNCHANGED <<ledgerVars, contentVars, storeVars, guardVars>>
    \/ \E s \in Parties, n \in Nonces, bal \in BalanceInputs :
          /\ inState(OPEN)
          /\ now + disputePeriod <= MaxTime
          /\ initiateDispute(s, n, bal[1], bal[2],
                             SignMessage(partyA, CommitmentHash(n, bal[1], bal[2])),
                             SignMessage(partyB, CommitmentHash(n, bal[1], bal[2])), TRUE)
          /\ UNCHANGED <<ledgerVars, contentVars, storeVars, guardVars>>
    \/ \E s \in Parties :
          /\ inState(DISPUTED)
          /\ s = disputeInitiator
          /\ finalizeDispute(s, [p \in Parties |-> TRUE])
          /\ UNCHANGED <<ledgerVars, contentVars, storeVars, guardVars>>
    \/ Tick /\ UNCHANGED <<ledgerVars, contentVars, storeVars, guardVars>>

SpecExit ==
    /\ Init /\ [][ExitNext]_vars
    /\ WF_vars(Tick /\ UNCHANGED <<ledgerVars, contentVars, storeVars, guardVars>>)
    /\ WF_vars(ExitFinalize)

\* ------------------------------------------------------------------------
\* The settlement functions transfer by partyX.call{value: ...}(""), which
\* runs the recipient's code before the function goes on.  Here a settlement
\* call takes several steps: it enters (modifiers, requires and the writes
\* that precede the first transfer), makes its transfers one by one, and
\* returns; a transfer that fails reverts the call.  While a transfer is under
\* way the recipient's code can call any function of the channel (Reenter*).
\* The calls that settle nothing run in one step, as in Spec.
\* ------------------------------------------------------------------------
\* modifier nonReentrant: the require of _nonReentrantBefore
nonReentrant == status = "NOT_ENTERED"

\* the transfers of the amounts that are not zero, in the order of the code
Transfers(amountA, amountB) ==
    SelectSeq(<<[to |-> partyA, value |-> amountA], [to |-> partyB, value |-> amountB]>>,
              LAMBDA t : t.value > 0)

\* a nonReentrant function has passed its requires and is about to transfer
Enter(op, transfers) ==
    /\ status' = "ENTERED"
    /\ frame' = [op |-> op, saved |-> chainVars, transfers |-> transfers]
    /\ UNCHANGED <<lastOp, now, paid>>

\* finalizeDispute that writes channelState after its transfers
finalizeDisputeEnterPaysFirst(sender) ==
    IF nonReentrant /\ finalizeDisputeAccepts(sender, [p \in Parties |-> TRUE])
    THEN /\ Enter(Call("finalizeDispute", sender, TRUE, 0, 0, 0, NoSig, NoSig, <<>>),
                  Transfers(disputedBalanceA, disputedBalanceB))
         /\ UNCHANGED <<channelState, channelBalance, deposits, latestNonce,
                        revokedCommitments, disputeDeadline, disputeInitiator,
                        disputedBalanceA, disputedBalanceB, disputedNonce>>
    ELSE Rejected("finalizeDispute", sender) /\ UNCHANGED guardVars

\* refundDeposits up to its first transfer
refundDepositsEnter(sender) ==
    IF nonReentrant /\ refundDepositsAccepts(sender, [p \in Parties |-> TRUE])
    THEN /\ deposits' = [p \in Parties |-> 0]
         /\ channelBalance' = 0
         /\ channelState' = CLOSED
         /\ Enter(Call("refundDeposits", sender, TRUE, 0, 0, 0, NoSig, NoSig, <<>>),
                  Transfers(deposits[partyA], deposits[partyB]))
         /\ UNCHANGED <<latestNonce, revokedCommitments, disputeDeadline,
                        disputeInitiator, disputedBalanceA, disputedBalanceB,
                        disputedNonce>>
    ELSE Rejected("refundDeposits", sender) /\ UNCHANGED guardVars

\* finalizeDispute up to its first transfer
finalizeDisputeEnter(sender) ==
    IF nonReentrant /\ finalizeDisputeAccepts(sender, [p \in Parties |-> TRUE])
    THEN /\ channelState' = CLOSED
         /\ Enter(Call("finalizeDispute", sender, TRUE, 0, 0, 0, NoSig, NoSig, <<>>),
                  Transfers(disputedBalanceA, disputedBalanceB))
         /\ UNCHANGED <<channelBalance, deposits, latestNonce, revokedCommitments,
                        disputeDeadline, disputeInitiator, disputedBalanceA,
                        disputedBalanceB, disputedNonce>>
    ELSE Rejected("finalizeDispute", sender) /\ UNCHANGED guardVars

\* cooperativeClose up to its first transfer
cooperativeCloseEnter(sender, balanceA, balanceB, signatureA, signatureB) ==
    IF /\ nonReentrant
       /\ cooperativeCloseAccepts(sender, balanceA, balanceB, signatureA, signatureB,
                                  [p \in Parties |-> TRUE])
    THEN /\ channelState' = CLOSED
         /\ Enter(Call("cooperativeClose", sender, TRUE, 0, balanceA, balanceB,
                       signatureA, signatureB, <<>>),
                  Transfers(balanceA, balanceB))
         /\ UNCHANGED <<channelBalance, deposits, latestNonce, revokedCommitments,
                        disputeDeadline, disputeInitiator, disputedBalanceA,
                        disputedBalanceB, disputedNonce>>
    ELSE Rejected("cooperativeClose", sender) /\ UNCHANGED guardVars

\* _applyPenalty(cheater) up to its transfer, within the call op
applyPenaltyEnter(cheater, op) ==
    LET honestParty == IF cheater = partyA THEN partyB ELSE partyA
    IN /\ channelState' = CLOSED
       /\ Enter(op, <<[to |-> honestParty, value |-> channelBalance]>>)
       /\ UNCHANGED <<channelBalance, deposits, latestNonce, revokedCommitments,
                      disputeDeadline, disputeInitiator, disputedBalanceA,
                      disputedBalanceB, disputedNonce>>

\* initiateDispute: with a revoked commitment up to the transfer of the
\* penalty, with any other the whole call
initiateDisputeEnter(sender, nonce, balanceA, balanceB, signatureA, signatureB) ==
    IF /\ initiateDisputeAccepts(sender, nonce, balanceA, balanceB, signatureA, signatureB,
                                 TRUE)
       /\ isRevoked(nonce, balanceA, balanceB)
    THEN IF nonReentrant
         THEN applyPenaltyEnter(sender, Call("initiateDispute", sender, TRUE, nonce, balanceA,
                                             balanceB, signatureA, signatureB, <<>>))
         ELSE Rejected("initiateDispute", sender) /\ UNCHANGED guardVars
    ELSE /\ initiateDispute(sender, nonce, balanceA, balanceB, signatureA, signatureB, TRUE)
         /\ UNCHANGED guardVars

\* proveRevocationBreach up to the transfer of the penalty
proveRevocationBreachEnter(sender, revocationSecret) ==
    IF nonReentrant /\ proveRevocationBreachAccepts(sender, revocationSecret, TRUE)
    THEN applyPenaltyEnter(disputeInitiator,
                           Call("proveRevocationBreach", sender, TRUE, 0, 0, 0, NoSig, NoSig,
                                revocationSecret))
    ELSE Rejected("proveRevocationBreach", sender) /\ UNCHANGED guardVars

\* the transfer under way succeeds
TransferReceived ==
    /\ frame # NoFrame
    /\ Len(frame.transfers) > 0
    /\ paid' = [paid EXCEPT ![Head(frame.transfers).to] = @ + Head(frame.transfers).value]
    /\ frame' = [frame EXCEPT !.transfers = Tail(@)]
    /\ UNCHANGED <<channelState, channelBalance, deposits, latestNonce, revokedCommitments,
                   disputeDeadline, disputeInitiator, disputedBalanceA, disputedBalanceB,
                   disputedNonce, now, lastOp, status>>

\* the transfer under way fails: the require after it reverts the call, and
\* with it everything written and transferred since the call began
TransferFailed ==
    /\ frame # NoFrame
    /\ Len(frame.transfers) > 0
    /\ channelState' = frame.saved[1]
    /\ channelBalance' = frame.saved[2]
    /\ deposits' = frame.saved[3]
    /\ latestNonce' = frame.saved[4]
    /\ revokedCommitments' = frame.saved[5]
    /\ disputeDeadline' = frame.saved[6]
    /\ disputeInitiator' = frame.saved[7]
    /\ disputedBalanceA' = frame.saved[8]
    /\ disputedBalanceB' = frame.saved[9]
    /\ disputedNonce' = frame.saved[10]
    /\ paid' = frame.saved[11]
    /\ status' = "NOT_ENTERED"
    /\ frame' = NoFrame
    /\ lastOp' = Call(frame.op.name, Stranger, FALSE, 0, 0, 0, NoSig, NoSig, <<>>)
    /\ UNCHANGED now

\* the last transfer is made: _nonReentrantAfter, and the call returns
Return ==
    /\ frame # NoFrame
    /\ Len(frame.transfers) = 0
    /\ status' = "NOT_ENTERED"
    /\ frame' = NoFrame
    /\ lastOp' = frame.op
    /\ UNCHANGED <<chainVars, now>>

\* the recipient's code is running
Receiving == frame # NoFrame /\ Len(frame.transfers) > 0

ReentrantNext ==
    \/ \E s \in Parties, v \in 1..MaxValue :
          /\ frame = NoFrame /\ inState(FUNDING)
          /\ fundChannelAccepts(s, v) => channelBalance + v <= MaxBalance
          /\ fundChannel(s, v)
          /\ UNCHANGED <<ledgerVars, contentVars, storeVars, guardVars>>
    \/ \E s \in Parties :
          /\ frame = NoFrame /\ inState(FUNDING)
          /\ openChannel(s)
          /\ UNCHANGED <<ledgerVars, contentVars, storeVars, guardVars>>
    \/ \E s \in Parties :
          /\ frame = NoFrame /\ inState(FUNDING)
          /\ refundDepositsEnter(s)
          /\ UNCHANGED <<ledgerVars, contentVars, storeVars>>
    \/ \E s \in Parties, secret \in SecretInputs :
          /\ frame = NoFrame /\ inState(OPEN)
          /\ Cardinality(revokedCommitments \cup {Keccak(secret)}) <= MaxRevoked
          /\ submitRevocation(s, Keccak(secret), secret)
          /\ UNCHANGED <<ledgerVars, contentVars, storeVars, guardVars>>
    \/ \E s \in Parties, n \in 1..MaxNonce, a \in 0..channelBalance :
          /\ frame = NoFrame /\ inState(OPEN)
          /\ initiateDisputeEnter(s, n, a, channelBalance - a,
                                  SignMessage(partyA, CommitmentHash(n, a, channelBalance - a)),
                                  SignMessage(partyB, CommitmentHash(n, a, channelBalance - a)))
          /\ UNCHANGED <<ledgerVars, contentVars, storeVars>>
    \/ \E s \in Parties, secret \in SecretInputs :
          /\ frame = NoFrame /\ inState(DISPUTED)
          /\ proveRevocationBreachEnter(s, secret)
          /\ UNCHANGED <<ledgerVars, contentVars, storeVars>>
    \/ \E s \in Parties :
          /\ frame = NoFrame /\ inState(DISPUTED)
          /\ finalizeDisputeEnter(s)
          /\ UNCHANGED <<ledgerVars, contentVars, storeVars>>
    \/ \E s \in Parties, a \in 0..channelBalance :
          /\ frame = NoFrame /\ inState(OPEN)
          /\ cooperativeCloseEnter(s, a, channelBalance - a,
                                   SignMessage(partyA, CloseHash(a, channelBalance - a)),
                                   SignMessage(partyB, CloseHash(a, channelBalance - a)))
          /\ UNCHANGED <<ledgerVars, contentVars, storeVars>>
    \/ /\ frame = NoFrame
       /\ Tick
       /\ UNCHANGED <<ledgerVars, contentVars, storeVars, guardVars>>
    \/ TransferReceived /\ UNCHANGED <<ledgerVars, contentVars, storeVars>>
    \/ TransferFailed /\ UNCHANGED <<ledgerVars, contentVars, storeVars>>
    \/ Return /\ UNCHANGED <<ledgerVars, contentVars, storeVars>>
    \/ \E s \in When(FUNDING, Callers, partyA), v \in When(FUNDING, 0..MaxValue, 1) :
          /\ Receiving
          /\ fundChannel(s, v)
          /\ UNCHANGED <<ledgerVars, contentVars, storeVars, guardVars>>
    \/ \E s \in When(FUNDING, Callers, partyA) :
          /\ Receiving
          /\ openChannel(s)
          /\ UNCHANGED <<ledgerVars, contentVars, storeVars, guardVars>>
    \/ \E s \in When(FUNDING, Callers, partyA),
          recv \in When(FUNDING, Recv, [p \in Parties |-> TRUE]) :
          /\ Receiving
          /\ IF ~nonReentrant THEN Rejected("refundDeposits", s)
             ELSE refundDeposits(s, recv)
          /\ UNCHANGED <<ledgerVars, contentVars, storeVars, guardVars>>
    \/ \E s \in When(OPEN, Callers, partyA),
          secret \in When(OPEN, SecretInputs, Preimage(partyA, 1, 1)) :
          /\ Receiving
          /\ submitRevocation(s, Keccak(secret), secret)
          /\ UNCHANGED <<ledgerVars, contentVars, storeVars, guardVars>>
    \/ \E s \in When(OPEN, Callers, partyA), n \in When(OPEN, Nonces, 0),
          bal \in When(OPEN, BalanceInputs, <<0, 0>>) :
          /\ Receiving
          /\ IF isRevoked(n, bal[1], bal[2]) /\ ~nonReentrant
             THEN Rejected("initiateDispute", s)
             ELSE initiateDispute(s, n, bal[1], bal[2],
                                  SignMessage(partyA, CommitmentHash(n, bal[1], bal[2])),
                                  SignMessage(partyB, CommitmentHash(n, bal[1], bal[2])), TRUE)
          /\ UNCHANGED <<ledgerVars, contentVars, storeVars, guardVars>>
    \/ \E s \in When(DISPUTED, Callers, partyA), n \in When(DISPUTED, Nonces, 0),
          bal \in When(DISPUTED, BalanceInputs, <<0, 0>>) :
          /\ Receiving
          /\ challengeDispute(s, n, bal[1], bal[2],
                              SignMessage(partyA, CommitmentHash(n, bal[1], bal[2])),
                              SignMessage(partyB, CommitmentHash(n, bal[1], bal[2])))
          /\ UNCHANGED <<ledgerVars, contentVars, storeVars, guardVars>>
    \/ \E s \in When(DISPUTED, Callers, partyA),
          secret \in When(DISPUTED, SecretInputs, Preimage(partyA, 1, 1)) :
          /\ Receiving
          /\ IF ~nonReentrant THEN Rejected("proveRevocationBreach", s)
             ELSE proveRevocationBreach(s, secret, TRUE)
          /\ UNCHANGED <<ledgerVars, contentVars, storeVars, guardVars>>
    \/ \E s \in When(DISPUTED, Callers, partyA),
          recv \in When(DISPUTED, Recv, [p \in Parties |-> TRUE]) :
          /\ Receiving
          /\ IF ~nonReentrant THEN Rejected("finalizeDispute", s)
             ELSE finalizeDispute(s, recv)
          /\ UNCHANGED <<ledgerVars, contentVars, storeVars, guardVars>>
    \/ \E s \in When(OPEN, Callers, partyA), bal \in When(OPEN, BalanceInputs, <<0, 0>>),
          recv \in When(OPEN, Recv, [p \in Parties |-> TRUE]) :
          /\ Receiving
          /\ IF ~nonReentrant THEN Rejected("cooperativeClose", s)
             ELSE cooperativeClose(s, bal[1], bal[2],
                                   SignMessage(partyA, CloseHash(bal[1], bal[2])),
                                   SignMessage(partyB, CloseHash(bal[1], bal[2])), recv)
          /\ UNCHANGED <<ledgerVars, contentVars, storeVars, guardVars>>

SpecReentrant == Init /\ [][ReentrantNext]_vars

\* ------------------------------------------------------------------------
\* Properties of the contract
\* ------------------------------------------------------------------------
\* the call recorded by a step, and whether it went through
Accepted(name) == lastOp'.name = name /\ lastOp'.ok
Reverted(name) == lastOp'.name = name /\ ~lastOp'.ok

\* the key under which initiateDispute looks the disputed commitment up
DisputedRevocationHash ==
    Keccak(CommitmentHash(disputedNonce, disputedBalanceA, disputedBalanceB))

\* C5: in every reachable state deposits[partyA] + deposits[partyB] equals
\* channelBalance
C5_DepositsSumToBalance == deposits[partyA] + deposits[partyB] = channelBalance

\* both parties funded, the channel was disputed and paid out
C5_Witness ==
    /\ deposits[partyA] > 0 /\ deposits[partyB] > 0
    /\ channelState = CLOSED
    /\ lastOp.name = "finalizeDispute" /\ lastOp.ok

\* C6: whenever the channel is DISPUTED, disputedBalanceA + disputedBalanceB
\* equals channelBalance
C6_DisputedBalancesSumToTotal ==
    inState(DISPUTED) => disputedBalanceA + disputedBalanceB = channelBalance

\* a dispute whose balances an accepted challenge has replaced
C6_Witness ==
    /\ inState(DISPUTED)
    /\ lastOp.name = "challengeDispute" /\ lastOp.ok
    /\ disputedBalanceA = lastOp.balanceA /\ disputedBalanceB = lastOp.balanceB
    /\ channelBalance > 0

\* C7: no step moves the channel to an earlier state, and in CLOSED every
\* call is rejected and changes nothing
C7_ForwardOnly ==
    [][/\ StateOrd(channelState') >= StateOrd(channelState)
       /\ inState(CLOSED) =>
             /\ UNCHANGED chainVars
             /\ lastOp'.ok => (lastOp'.name = "tick" \/ UNCHANGED lastOp)]_vars

\* a call made in CLOSED
C7_Witness == inState(CLOSED) /\ ~lastOp.ok /\ paid[partyA] + paid[partyB] > 0

\* both parties' signatures over the commitment (nonce, bal)
BothSigned(nonce, bal) ==
    <<SignMessage(partyA, CommitmentHash(nonce, bal[1], bal[2])),
      SignMessage(partyB, CommitmentHash(nonce, bal[1], bal[2]))>>

\* C8: in DISPUTED a challenge with nonce <= disputedNonce is rejected and
\* leaves the dispute fields unchanged; a participant's challenge with a higher
\* nonce, both parties' signatures and balances summing to channelBalance is
\* accepted; an accepted challenge carries a strictly higher nonce, replaces
\* disputedNonce and the disputed balances and sets disputeDeadline to
\* now + disputePeriod
C8_Supersession ==
    /\ [](inState(DISPUTED) =>
             \A s \in Callers, n \in Nonces, bal \in BalanceInputs :
                \A sigs \in SignatureInputs(CommitmentHash(n, bal[1], bal[2]),
                                            CloseHash(bal[1], bal[2])) :
                   /\ n <= disputedNonce
                         => ~challengeDisputeAccepts(s, n, bal[1], bal[2], sigs[1], sigs[2])
                   /\ (/\ s \in Parties
                       /\ n > disputedNonce
                       /\ bal[1] + bal[2] = channelBalance
                       /\ sigs = BothSigned(n, bal))
                         => challengeDisputeAccepts(s, n, bal[1], bal[2], sigs[1], sigs[2]))
    /\ [][/\ Accepted("challengeDispute") =>
                /\ inState(DISPUTED)
                /\ lastOp'.nonce > disputedNonce
                /\ disputedNonce' = lastOp'.nonce
                /\ disputedBalanceA' = lastOp'.balanceA
                /\ disputedBalanceB' = lastOp'.balanceB
                /\ disputeDeadline' = now' + disputePeriod
                /\ channelState' = DISPUTED
          /\ Reverted("challengeDispute") =>
                UNCHANGED <<disputedNonce, disputedBalanceA, disputedBalanceB,
                            disputeDeadline, disputeInitiator, channelState>>]_vars

\* a challenge accepted some time after the dispute was raised: the nonce is
\* the challenger's and the deadline runs from the challenge
C8_Witness ==
    /\ inState(DISPUTED)
    /\ lastOp.name = "challengeDispute" /\ lastOp.ok
    /\ disputedNonce = lastOp.nonce /\ disputedNonce > 1
    /\ now > 0 /\ disputeDeadline = now + disputePeriod

\* C9: finalizeDispute is accepted only in DISPUTED with the deadline reached,
\* is rejected before the deadline and then changes nothing; when accepted it
\* pays disputedBalanceA to partyA and disputedBalanceB to partyB and closes
\* the channel
C9_FinalizeAfterDeadline ==
    /\ []((inState(DISPUTED) /\ now < disputeDeadline) =>
             \A s \in Callers, recv \in Recv : ~finalizeDisputeAccepts(s, recv))
    /\ [][/\ Accepted("finalizeDispute") =>
                /\ inState(DISPUTED)
                /\ now >= disputeDeadline
                /\ channelState' = CLOSED
                /\ paid' = [paid EXCEPT ![partyA] = @ + disputedBalanceA,
                                        ![partyB] = @ + disputedBalanceB]
          /\ Reverted("finalizeDispute") => UNCHANGED chainVars]_vars

\* the payout of a dispute after its deadline
C9_Witness ==
    /\ lastOp.name = "finalizeDispute" /\ lastOp.ok
    /\ inState(CLOSED)
    /\ now >= disputeDeadline
    /\ paid = [p \in Parties |-> IF p = partyA THEN disputedBalanceA ELSE disputedBalanceB]
    /\ disputedBalanceA > 0 /\ disputedBalanceB > 0

\* C3: proveRevocationBreach is accepted only when the disputed commitment is
\* in revokedCommitments
C3_BreachOnlyForRevoked ==
    [][Accepted("proveRevocationBreach") => DisputedRevocationHash \in revokedCommitments]_vars

\* C4: in every DISPUTED state and at every finalizeDispute payout the
\* disputed commitment is not in revokedCommitments
C4_DisputedNeverRevoked ==
    (inState(DISPUTED) \/ (lastOp.name = "finalizeDispute" /\ lastOp.ok))
        => DisputedRevocationHash \notin revokedCommitments

\* C10: challengeDispute is accepted only before disputeDeadline, so no state
\* accepts both a finalizeDispute and a challengeDispute
C10_ChallengeOnlyBeforeDeadline ==
    \A s \in Callers, n \in Nonces, bal \in BalanceInputs :
       \A sigs \in SignatureInputs(CommitmentHash(n, bal[1], bal[2]),
                                   CloseHash(bal[1], bal[2])) :
          challengeDisputeAccepts(s, n, bal[1], bal[2], sigs[1], sigs[2])
             => /\ now < disputeDeadline
                /\ \A t \in Callers, recv \in Recv : ~finalizeDisputeAccepts(t, recv)

\* both parties' signatures over the close payload (bal)
BothSignedClose(bal) ==
    <<SignMessage(partyA, CloseHash(bal[1], bal[2])),
      SignMessage(partyB, CloseHash(bal[1], bal[2]))>>

\* every recipient takes the transfer
AllReceive == [p \in Parties |-> TRUE]

\* C11: in OPEN a participant's cooperativeClose with balances summing to
\* channelBalance and both parties' signatures over the close payload is
\* accepted; an accepted cooperativeClose pays balanceA to partyA and balanceB
\* to partyB and closes the channel
C11_CooperativeClosePays ==
    /\ [](inState(OPEN) =>
             \A s \in Parties, bal \in BalanceInputs :
                bal[1] + bal[2] = channelBalance
                   => cooperativeCloseAccepts(s, bal[1], bal[2], BothSignedClose(bal)[1],
                                              BothSignedClose(bal)[2], AllReceive))
    /\ [][Accepted("cooperativeClose") =>
             /\ inState(OPEN)
             /\ lastOp'.balanceA + lastOp'.balanceB = channelBalance
             /\ <<lastOp'.sigA, lastOp'.sigB>>
                   = BothSignedClose(<<lastOp'.balanceA, lastOp'.balanceB>>)
             /\ channelState' = CLOSED
             /\ paid' = [paid EXCEPT ![partyA] = @ + lastOp'.balanceA,
                                     ![partyB] = @ + lastOp'.balanceB]]_vars

\* a cooperative close that paid the two parties different amounts
C11_Witness ==
    /\ lastOp.name = "cooperativeClose" /\ lastOp.ok
    /\ inState(CLOSED)
    /\ paid[partyA] = lastOp.balanceA /\ paid[partyB] = lastOp.balanceB
    /\ lastOp.balanceA > lastOp.balanceB

\* abi.encodePacked, byte by byte: a uint256 is 32 bytes big-endian (the
\* values of the model fit the last byte), an address 20 bytes, a string its
\* characters
PackedUint256(v) == [i \in 1..32 |-> IF i = 32 THEN v ELSE 0]

PackedAddress == [i \in 1..20 |-> 202]

PackedString == <<67, 76, 79, 83, 69>>

\* abi.encodePacked(address(this), nonce, balanceA, balanceB)
PackedCommitment(nonce, balanceA, balanceB) ==
    PackedAddress \o PackedUint256(nonce) \o PackedUint256(balanceA)
        \o PackedUint256(balanceB)

\* abi.encodePacked("CLOSE", address(this), balanceA, balanceB)
PackedClose(balanceA, balanceB) ==
    PackedString \o PackedAddress \o PackedUint256(balanceA) \o PackedUint256(balanceB)

\* C12: the bytes hashed for a commitment never equal the bytes hashed for a
\* close; both parties' signatures over a commitment are never accepted by
\* cooperativeClose, and both parties' signatures over a close payload are
\* never accepted by initiateDispute or challengeDispute
C12_NoCrossProtocolReuse ==
    \A n \in Nonces, bal \in BalanceInputs, other \in BalanceInputs :
       /\ PackedCommitment(n, bal[1], bal[2]) # PackedClose(other[1], other[2])
       /\ CommitmentHash(n, bal[1], bal[2]) # CloseHash(other[1], other[2])
       /\ \A s \in Parties :
             /\ ~cooperativeCloseAccepts(s, other[1], other[2], BothSigned(n, bal)[1],
                                         BothSigned(n, bal)[2], AllReceive)
             /\ ~initiateDisputeAccepts(s, n, bal[1], bal[2], BothSignedClose(other)[1],
                                        BothSignedClose(other)[2], TRUE)
             /\ ~challengeDisputeAccepts(s, n, bal[1], bal[2], BothSignedClose(other)[1],
                                         BothSignedClose(other)[2])

\* an open channel in which a cooperativeClose was rejected, and which accepts
\* the parties' signatures over the close payload but not those over the
\* commitment with the same balances
C12_Witness ==
    /\ inState(OPEN)
    /\ lastOp.name = "cooperativeClose" /\ ~lastOp.ok
    /\ \E bal \in BalanceInputs :
          /\ cooperativeCloseAccepts(partyA, bal[1], bal[2], BothSignedClose(bal)[1],
                                     BothSignedClose(bal)[2], AllReceive)
          /\ ~cooperativeCloseAccepts(partyA, bal[1], bal[2], BothSigned(0, bal)[1],
                                      BothSigned(0, bal)[2], AllReceive)

\* C13: in OPEN, initiateDispute by a participant with both parties'
\* signatures over a commitment summing to channelBalance whose revocation
\* hash is in revokedCommitments is accepted; an accepted initiateDispute
\* with a revoked commitment pays the whole channelBalance to the participant
\* other than the caller and nothing to the caller, closes the channel and
\* opens no dispute
C13_RevokedDisputePenalised ==
    /\ [](inState(OPEN) =>
             \A s \in Parties, n \in Nonces, bal \in BalanceInputs :
                (bal[1] + bal[2] = channelBalance /\ isRevoked(n, bal[1], bal[2]))
                   => initiateDisputeAccepts(s, n, bal[1], bal[2], BothSigned(n, bal)[1],
                                             BothSigned(n, bal)[2], TRUE))
    /\ [][(/\ Accepted("initiateDispute")
           /\ isRevoked(lastOp'.nonce, lastOp'.balanceA, lastOp'.balanceB)) =>
             /\ inState(OPEN)
             /\ lastOp'.sender \in Parties
             /\ channelState' = CLOSED
             /\ paid' = [paid EXCEPT ![Other(lastOp'.sender)] = @ + channelBalance]
             /\ paid'[lastOp'.sender] = paid[lastOp'.sender]
             /\ UNCHANGED <<disputeDeadline, disputeInitiator, disputedBalanceA,
                            disputedBalanceB, disputedNonce, channelBalance>>]_vars

\* partyB disputed with a revoked commitment that favoured it: partyA holds
\* the whole balance, partyB nothing, and no dispute was recorded
C13_Witness ==
    /\ lastOp.name = "initiateDispute" /\ lastOp.ok /\ lastOp.sender = partyB
    /\ isRevoked(lastOp.nonce, lastOp.balanceA, lastOp.balanceB)
    /\ lastOp.balanceB > lastOp.balanceA
    /\ inState(CLOSED)
    /\ channelBalance > 0
    /\ paid[partyA] = channelBalance /\ paid[partyB] = 0
    /\ disputeInitiator = NoAddress

\* C14: in FUNDING, openChannel by a participant is accepted exactly when at
\* least one party has a positive deposit, also when only one of them has;
\* accepted it opens the channel and leaves the deposits as they were,
\* rejected it leaves the channel in FUNDING
C14_OpenWithAnyFunding ==
    /\ [](inState(FUNDING) =>
             \A s \in Parties :
                openChannelAccepts(s) <=> (deposits[partyA] > 0 \/ deposits[partyB] > 0))
    /\ [][/\ Accepted("openChannel") =>
                /\ inState(FUNDING)
                /\ channelState' = OPEN
                /\ UNCHANGED <<deposits, channelBalance>>
          /\ (Reverted("openChannel") /\ inState(FUNDING)) =>
                /\ channelState' = FUNDING
                /\ UNCHANGED <<deposits, channelBalance>>]_vars

\* C15: refundDeposits is accepted only in FUNDING and only when now is past
\* fundingDeadline, and then it is accepted from any caller when the transfers
\* succeed; accepted, it pays each party its deposit, zeroes both deposits and
\* channelBalance and closes the channel; at or before the deadline it is
\* rejected, and a rejected call changes nothing
C15_RefundAfterDeadline ==
    /\ [](\A s \in Callers :
             /\ \A recv \in Recv :
                   refundDepositsAccepts(s, recv) => (inState(FUNDING) /\ now > fundingDeadline)
             /\ (inState(FUNDING) /\ now > fundingDeadline)
                   => refundDepositsAccepts(s, AllReceive))
    /\ [][/\ Accepted("refundDeposits") =>
                /\ inState(FUNDING)
                /\ now > fundingDeadline
                /\ paid' = [p \in Parties |-> paid[p] + deposits[p]]
                /\ deposits' = [p \in Parties |-> 0]
                /\ channelBalance' = 0
                /\ channelState' = CLOSED
          /\ Reverted("refundDeposits") => UNCHANGED chainVars]_vars

\* both parties funded, the channel was never opened, and after the deadline
\* each got its deposit back
C15_Witness ==
    /\ lastOp.name = "refundDeposits" /\ lastOp.ok
    /\ inState(CLOSED)
    /\ now > fundingDeadline
    /\ paid[partyA] = 1 /\ paid[partyB] = 1
    /\ deposits = [p \in Parties |-> 0]
    /\ channelBalance = 0

\* C16: fundChannel is rejected when the amount is not positive, when now is
\* past fundingDeadline and when the channel is not in FUNDING, and a rejected
\* call leaves deposits, channelBalance and channelState as they were;
\* otherwise a participant's call is accepted, adds the amount to the caller's
\* deposit and to channelBalance and leaves the channel in FUNDING;
\* channelBalance never changes in OPEN or DISPUTED
C16_FundOnlyWhileFunding ==
    /\ [](\A s \in Callers, v \in 0..MaxValue :
             /\ (v <= 0 \/ now > fundingDeadline \/ ~inState(FUNDING))
                   => ~fundChannelAccepts(s, v)
             /\ (s \in Parties /\ v > 0 /\ now <= fundingDeadline /\ inState(FUNDING))
                   => fundChannelAccepts(s, v))
    /\ [][/\ Accepted("fundChannel") =>
                /\ inState(FUNDING)
                /\ lastOp'.arg > 0
                /\ deposits' = [deposits EXCEPT ![lastOp'.sender] = @ + lastOp'.arg]
                /\ channelBalance' = channelBalance + lastOp'.arg
                /\ channelState' = FUNDING
          /\ Reverted("fundChannel") => UNCHANGED <<deposits, channelBalance, channelState>>
          /\ (inState(OPEN) \/ inState(DISPUTED)) => channelBalance' = channelBalance]_vars

\* partyB added to a deposit it had made before, at the funding deadline
C16_Witness ==
    /\ lastOp.name = "fundChannel" /\ lastOp.ok /\ lastOp.sender = partyB
    /\ lastOp.arg = 1
    /\ deposits[partyB] = 2 /\ channelBalance = 2
    /\ inState(FUNDING)
    /\ now = fundingDeadline

\* the call's balances or signatures are not acceptable: the balances do not
\* sum to channelBalance, or a signature does not recover to its party over
\* the payload h
Malformed(bal, sigs, h) ==
    \/ bal[1] + bal[2] # channelBalance
    \/ Recover(ToEthSignedMessageHash(h), sigs[1]) # partyA
    \/ Recover(ToEthSignedMessageHash(h), sigs[2]) # partyB

\* C17: initiateDispute, challengeDispute and cooperativeClose are rejected
\* when the balances do not sum to channelBalance, when either signature does
\* not recover to its party, and when the channel is not in the state the
\* function needs; a rejected call leaves every channel variable unchanged, so
\* initiateDispute with valid signatures and a wrong sum leaves the channel OPEN
C17_RejectedCallsChangeNothing ==
    /\ [](\A s \in Callers, n \in Nonces, bal \in BalanceInputs :
             \A sigs \in SignatureInputs(CommitmentHash(n, bal[1], bal[2]),
                                         CloseHash(bal[1], bal[2])) :
                /\ (Malformed(bal, sigs, CommitmentHash(n, bal[1], bal[2])) \/ ~inState(OPEN))
                      => \A recv \in BOOLEAN :
                            ~initiateDisputeAccepts(s, n, bal[1], bal[2], sigs[1], sigs[2], recv)
                /\ (Malformed(bal, sigs, CommitmentHash(n, bal[1], bal[2]))
                       \/ ~inState(DISPUTED))
                      => ~challengeDisputeAccepts(s, n, bal[1], bal[2], sigs[1], sigs[2]))
    /\ [](\A s \in Callers, bal \in BalanceInputs :
             \A sigs \in SignatureInputs(CloseHash(bal[1], bal[2]),
                                         CommitmentHash(1, bal[1], bal[2])) :
                (Malformed(bal, sigs, CloseHash(bal[1], bal[2])) \/ ~inState(OPEN))
                   => \A recv \in Recv :
                         ~cooperativeCloseAccepts(s, bal[1], bal[2], sigs[1], sigs[2], recv))
    /\ [][/\ Reverted("initiateDispute") => UNCHANGED chainVars
          /\ Reverted("challengeDispute") => UNCHANGED chainVars
          /\ Reverted("cooperativeClose") => UNCHANGED chainVars]_vars

\* an open, funded channel in which an initiateDispute was just rejected, and
\* which rejects the dual-signed commitment whose balances sum to one unit more
\* than channelBalance
C17_Witness ==
    /\ lastOp.name = "initiateDispute" /\ ~lastOp.ok
    /\ inState(OPEN)
    /\ channelBalance = 2
    /\ paid = [p \in Parties |-> 0]
    /\ ~initiateDisputeAccepts(partyA, 1, 2, 1, BothSigned(1, <<2, 1>>)[1],
                               BothSigned(1, <<2, 1>>)[2], TRUE)
    /\ initiateDisputeAccepts(partyA, 1, 1, 1, BothSigned(1, <<1, 1>>)[1],
                              BothSigned(1, <<1, 1>>)[2], TRUE)

getChannelInfo == <<partyA, partyB, channelBalance, channelState, latestNonce>>

\* C19: the latestNonce that getChannelInfo returns is the highest nonce of a
\* commitment accepted so far by initiateDispute or challengeDispute: it
\* rises to the nonce of each accepted call that carries a higher one, and no
\* other step changes it
C19_LatestNonceTracksDisputes ==
    [][IF Accepted("initiateDispute") \/ Accepted("challengeDispute")
       THEN getChannelInfo'[5] = IF lastOp'.nonce > getChannelInfo[5]
                                 THEN lastOp'.nonce
                                 ELSE getChannelInfo[5]
       ELSE getChannelInfo'[5] = getChannelInfo[5]]_vars

\* a transfer of a positive amount to partyA or to partyB fails
TransferFails(amountA, amountB, recv) ==
    \/ amountA > 0 /\ ~recv[partyA]
    \/ amountB > 0 /\ ~recv[partyB]

\* C20: refundDeposits, finalizeDispute, cooperativeClose and the penalty
\* paths are rejected when a transfer they make fails, and rejected they leave
\* the channel as it was, not CLOSED and nobody paid; whatever is paid is paid
\* in one step that closes the channel and pays out the whole channelBalance,
\* so no state has one party paid and the other's share withheld
C20_SettlementAllOrNothing ==
    /\ [](\A s \in Callers, recv \in Recv :
             /\ TransferFails(deposits[partyA], deposits[partyB], recv)
                   => ~refundDepositsAccepts(s, recv)
             /\ TransferFails(disputedBalanceA, disputedBalanceB, recv)
                   => ~finalizeDisputeAccepts(s, recv)
             /\ \A bal \in BalanceInputs :
                   TransferFails(bal[1], bal[2], recv)
                      => ~cooperativeCloseAccepts(s, bal[1], bal[2], BothSignedClose(bal)[1],
                                                  BothSignedClose(bal)[2], recv))
    /\ [](\A s \in Callers :
             /\ \A n \in Nonces, bal \in BalanceInputs :
                   isRevoked(n, bal[1], bal[2])
                      => ~initiateDisputeAccepts(s, n, bal[1], bal[2], BothSigned(n, bal)[1],
                                                 BothSigned(n, bal)[2], FALSE)
             /\ \A secret \in SecretInputs : ~proveRevocationBreachAccepts(s, secret, FALSE))
    /\ [](~inState(CLOSED) => paid = [p \in Parties |-> 0])
    /\ [][/\ \A name \in {"refundDeposits", "finalizeDispute", "cooperativeClose",
                            "initiateDispute", "proveRevocationBreach"} :
                Reverted(name) => UNCHANGED chainVars
          /\ Accepted("refundDeposits")
                => paid' = [p \in Parties |-> paid[p] + deposits[p]]
          /\ Accepted("finalizeDispute")
                => paid' = [paid EXCEPT ![partyA] = @ + disputedBalanceA,
                                        ![partyB] = @ + disputedBalanceB]
          /\ paid' # paid =>
                /\ ~inState(CLOSED) /\ channelState' = CLOSED
                /\ paid'[partyA] + paid'[partyB] = channelBalance]_vars

\* a dispute that owes both parties was finalized: both are paid, the channel
\* is CLOSED
C20_Witness ==
    /\ lastOp.name = "finalizeDispute" /\ lastOp.ok
    /\ inState(CLOSED)
    /\ disputedBalanceA > 0 /\ disputedBalanceB > 0
    /\ paid[partyA] = disputedBalanceA /\ paid[partyB] = disputedBalanceB

\* ------------------------------------------------------------------------
\* The channel together with the off-chain exchange.  The parties drive the
\* channel with the transactions the CLI names (fund-channel, open-channel,
\* submit-revocation, initiateDispute, close-channel), each issued in the
\* channel state it is meant for and with arguments taken from the caller's
\* ledger, initiateDispute with the two signatures in the contract's order,
\* and exchange commitments while the channel is open.  The message a command
\* receives is one the counterparty's ledger yields, or an unsigned proposal
\* for a split of the channel balance.  None of these transactions reads
\* block.timestamp once the channel is funded, so the clock stays where the
\* constructor left it; Spec covers the passing of time and the rejected calls.
\* The field generation of a commitment record counts the preimages drawn for
\* its nonce, so that two draws of crypto.randomBytes differ.
\* ------------------------------------------------------------------------
\* preimages a party draws for one nonce
MaxGeneration == 1
\* largest amount of a send-payment
MaxPayment == 1

Records(p) == {commitments[p][n] : n \in {m \in 1..MaxNonce : Exists(commitments[p][m])}}

Proposals(p) ==
    {Serialized(c) : c \in Records(Other(p))}
    \cup {[nonce |-> n, balanceA |-> channelBalance - n, balanceB |-> n,
           hash |-> CommitmentHash(n, channelBalance - n, n),
           signature |-> NoSig, revocationHash |-> None] :
             n \in 1..MaxNonce}

Tampered(incoming) == [incoming EXCEPT !.hash = CloseHash(incoming.balanceA, incoming.balanceB)]

\* the signatures initiateDispute expects, taken from a record of a party's
\* ledger: the party's own signature and the counterparty's, each in the
\* position of its party (the dispute command itself is modelled by dispute)
SignatureOf(p, q, c) == IF p = q THEN c.signature ELSE c.counterpartySignature

\* revocation secrets a party can take from its ledger: the hash of a
\* commitment, the preimage it drew for it, the secret it received for it
KnownSecrets(p) ==
    UNION {{CommitmentHash(c.nonce, c.balanceA, c.balanceB), c.revocationPreimage,
            c.revocationSecret} : c \in Records(p)} \ {None}

ExchangeNext ==
    \/ \E p \in Parties, amount \in 1..MaxPayment :
          /\ inState(OPEN)
          /\ getCommitment(p, states[p].nonce + 1).generation < MaxGeneration
          /\ sendPayment(p, amount)
    \/ \E p \in Parties : \E incoming \in Proposals(p), tampered \in BOOLEAN :
          /\ inState(OPEN)
          /\ getCommitment(p, incoming.nonce).generation < MaxGeneration
          /\ signCommitment(p, IF tampered THEN Tampered(incoming) ELSE incoming)
    \/ \E p \in Parties : \E c \in Records(Other(p)) :
          /\ inState(OPEN)
          /\ finalizeCommitment(p, ResponseOf(Other(p), c.nonce))
    \/ \E p \in Parties : \E c \in Records(Other(p)) :
          /\ inState(OPEN)
          /\ receiveRevocation(p, [nonce |-> c.nonce + 1,
                                   previousRevocationSecret |-> c.revocationPreimage])

ExchangeChainNext ==
    \/ \E p \in Parties, amount \in 1..MaxValue :
          /\ inState(FUNDING)
          /\ fundChannelAccepts(p, amount) => channelBalance + amount <= MaxBalance
          /\ fundChannelCmd(p, amount)
    \/ \E s \in Parties :
          /\ inState(FUNDING)
          /\ openChannel(s)
          /\ UNCHANGED <<ledgerVars, contentVars, storeVars, guardVars>>
    \/ \E s \in Parties : \E secret \in KnownSecrets(s) :
          /\ inState(OPEN)
          /\ Cardinality(revokedCommitments \cup {Keccak(secret)}) <= MaxRevoked
          /\ submitRevocation(s, Keccak(secret), secret)
          /\ UNCHANGED <<ledgerVars, contentVars, storeVars, guardVars>>
    \/ \E s \in Parties : \E c \in Records(s) :
          /\ inState(OPEN)
          /\ initiateDispute(s, c.nonce, c.balanceA, c.balanceB,
                             SignatureOf(partyA, s, c), SignatureOf(partyB, s, c), TRUE)
          /\ UNCHANGED <<ledgerVars, contentVars, storeVars, guardVars>>
    \/ \E s \in Parties :
          /\ inState(OPEN)
          /\ cooperativeClose(s, states[s].balanceA, states[s].balanceB,
                              SignMessage(partyA, CloseHash(states[s].balanceA,
                                                            states[s].balanceB)),
                              SignMessage(partyB, CloseHash(states[s].balanceA,
                                                            states[s].balanceB)),
                              [p \in Parties |-> TRUE])
          /\ UNCHANGED <<ledgerVars, contentVars, storeVars, guardVars>>

NextExchange == ExchangeNext \/ ExchangeChainNext

SpecExchange == Init /\ [][NextExchange]_vars

\* ------------------------------------------------------------------------
\* The off-chain exchange over a wire that can alter, forge and replay
\* messages.  The channel is funded and opened and stays open; a command
\* receives a message the counterparty's ledger yields, or that message with
\* its hash, its signature or its revocation secret replaced, or an unsigned
\* proposal.
\* ------------------------------------------------------------------------
\* a value that is the preimage of no revocation hash in either ledger
WrongSecret == Preimage(partyA, 0, 0)

\* the response with the signature of a key that is not the counterparty's
Forged(signed) ==
    [signed EXCEPT !.counterpartySignature = SignMessage(Stranger, signed.hash)]

\* the response with a secret that does not open the previous commitment
Mismatched(signed) == [signed EXCEPT !.previousRevocationSecret = WrongSecret]

\* the commitments that the wire can deliver to p: those of Proposals, and an
\* unsigned first proposal whose balances sum to one unit more than the
\* channel balance
WireProposals(p) ==
    Proposals(p)
    \cup {[nonce |-> 1, balanceA |-> channelBalance, balanceB |-> 1,
           hash |-> CommitmentHash(1, channelBalance, 1),
           signature |-> NoSig, revocationHash |-> None]}

\* the responses of the counterparty that the wire can deliver to p
Responses(p) ==
    UNION {{ResponseOf(Other(p), c.nonce), Forged(ResponseOf(Other(p), c.nonce)),
            Mismatched(ResponseOf(Other(p), c.nonce))} : c \in Records(Other(p))}

\* the revocation responses that the wire can deliver to p
RevocationResponses(p) ==
    UNION {{[nonce |-> c.nonce + 1, previousRevocationSecret |-> c.revocationPreimage],
            [nonce |-> c.nonce + 1, previousRevocationSecret |-> WrongSecret]} :
              c \in Records(Other(p))}

LedgerNext ==
    \/ \E p \in Parties, amount \in 1..MaxValue :
          /\ inState(FUNDING)
          /\ fundChannelAccepts(p, amount) => channelBalance + amount <= MaxBalance
          /\ fundChannelCmd(p, amount)
    \/ \E s \in Parties :
          /\ inState(FUNDING)
          /\ openChannel(s)
          /\ UNCHANGED <<ledgerVars, contentVars, storeVars, guardVars>>
    \/ \E p \in Parties, amount \in 1..MaxPayment :
          /\ inState(OPEN)
          /\ getCommitment(p, states[p].nonce + 1).generation < MaxGeneration
          /\ sendPayment(p, amount)
    \/ \E p \in Parties : \E incoming \in WireProposals(p), tampered \in BOOLEAN :
          /\ inState(OPEN)
          /\ getCommitment(p, incoming.nonce).generation < MaxGeneration
          /\ signCommitment(p, IF tampered THEN Tampered(incoming) ELSE incoming)
    \/ \E p \in Parties : \E signed \in Responses(p) :
          /\ inState(OPEN)
          /\ finalizeCommitment(p, signed)
    \/ \E p \in Parties : \E response \in RevocationResponses(p) :
          /\ inState(OPEN)
          /\ receiveRevocation(p, response)

SpecLedger == Init /\ [][LedgerNext]_vars

\* ------------------------------------------------------------------------
\* The off-chain exchange run in order, as the CLI's end-to-end script runs
\* it: a payment is proposed when the exchange before it is complete, the
\* counterparty signs what send-payment printed, the proposer finalizes what
\* sign-commitment printed and, from the second payment on, the counterparty
\* receives the revocation response that finalize-commitment printed.  Either
\* party may propose, and a payment may be of amount 0.
\* ------------------------------------------------------------------------
\* largest channel balance of the exchange run in order: room for two
\* payments of one unit by the same party
MaxOrderedBalance == 3

\* the last command went through
Completed(name) == lastOp.name = name /\ lastOp.ok

\* no exchange is under way: the channel was just opened, or the last exchange
\* has seen its last command
ExchangeComplete ==
    \/ Completed("openChannel")
    \/ Completed("finalize-commitment") /\ states[lastOp.sender].nonce = 1
    \/ Completed("receive-revocation")

\* the revocation response finalize-commitment prints for the counterparty
RevocationResponseOf(q) ==
    [nonce |-> states[q].nonce,
     previousRevocationSecret |-> getCommitment(q, states[q].nonce - 1).revocationPreimage]

InOrderNext ==
    \/ \E p \in Parties, amount \in 1..MaxValue :
          /\ inState(FUNDING)
          /\ fundChannelAccepts(p, amount) => channelBalance + amount <= MaxOrderedBalance
          /\ fundChannelCmd(p, amount)
    \/ \E s \in Parties :
          /\ inState(FUNDING)
          /\ openChannel(s)
          /\ UNCHANGED <<ledgerVars, contentVars, storeVars, guardVars>>
    \/ \E p \in Parties, amount \in 0..MaxPayment :
          /\ inState(OPEN)
          /\ ExchangeComplete
          /\ states[partyA].nonce = states[partyB].nonce
          /\ sendPayment(p, amount)
    \/ \E p \in Parties :
          /\ Completed("send-payment") /\ lastOp.sender = Other(p)
          /\ signCommitment(p, Serialized(getCommitment(Other(p), states[Other(p)].nonce)))
    \/ \E p \in Parties :
          /\ Completed("sign-commitment") /\ lastOp.sender = Other(p)
          /\ finalizeCommitment(p, ResponseOf(Other(p), states[p].nonce))
    \/ \E p \in Parties :
          /\ Completed("finalize-commitment") /\ lastOp.sender = Other(p)
          /\ states[Other(p)].nonce > 1
          /\ receiveRevocation(p, RevocationResponseOf(Other(p)))

SpecInOrder == Init /\ [][InOrderNext]_vars

\* ------------------------------------------------------------------------
\* The dispute command after an exchange run in order: the party takes a
\* record of its ledger to the chain, time passes, the dispute is finalized.
\* ------------------------------------------------------------------------
\* commitment.signatureA and commitment.signatureB: fields that no record of
\* commitments.json has (a record holds signature and counterpartySignature),
\* so no signature reaches the contract
Undefined == NoSig

\* the dispute command finds the record, and the initiateDispute transaction
\* that ChannelManager.initiateDispute builds from it goes through
disputeAccepts(p, nonce) ==
    LET commitment == getCommitment(p, nonce)
    IN /\ Exists(commitment)
       /\ initiateDisputeAccepts(p, commitment.nonce, commitment.balanceA,
                                 commitment.balanceB, Undefined, Undefined, TRUE)

\* dispute
dispute(p, nonce) ==
    LET commitment == getCommitment(p, nonce)
    IN /\ IF Exists(commitment)
          THEN initiateDispute(p, commitment.nonce, commitment.balanceA,
                               commitment.balanceB, Undefined, Undefined, TRUE)
          ELSE Rejected("dispute", p)
       /\ UNCHANGED <<ledgerVars, contentVars, storeVars, guardVars>>

DisputeNext ==
    \/ InOrderNext
    \/ \E p \in Parties, nonce \in 1..MaxNonce :
          /\ inState(OPEN)
          /\ dispute(p, nonce)
    \/ \E s \in Parties :
          /\ ~inState(FUNDING)
          /\ finalizeDispute(s, AllReceive)
          /\ UNCHANGED <<ledgerVars, contentVars, storeVars, guardVars>>
    \/ /\ ~inState(FUNDING)
       /\ Tick
       /\ UNCHANGED <<ledgerVars, contentVars, storeVars, guardVars>>

SpecDispute == Init /\ [][DisputeNext]_vars

\* ------------------------------------------------------------------------
\* Properties of the channel with the off-chain exchange
\* ------------------------------------------------------------------------
\* party q holds commitment c signed by both parties
DualSigned(q, c) ==
    LET h == CommitmentHash(c.nonce, c.balanceA, c.balanceB)
    IN /\ Exists(c)
       /\ c.signature = SignMessage(q, h)
       /\ c.counterpartySignature = SignMessage(Other(q), h)

\* the exchange for nonce n + 1 ran to its end: both ledgers hold the same
\* dual-signed commitment n + 1, both have marked commitment n revoked, and a
\* party holds the counterparty's verified revocation secret of nonce n
SecretsExchanged(n) ==
    /\ n \in 1..(MaxNonce - 1)
    /\ \A q \in Parties :
          /\ DualSigned(q, commitments[q][n])
          /\ commitments[q][n].revoked
          /\ DualSigned(q, commitments[q][n + 1])
    /\ commitments[partyA][n + 1].balanceA = commitments[partyB][n + 1].balanceA
    /\ commitments[partyA][n + 1].balanceB = commitments[partyB][n + 1].balanceB
    /\ \E q \in Parties :
          Keccak(commitments[q][n].revocationSecret)
             = commitments[q][n].counterpartyRevocationHash

\* op is an accepted initiateDispute call of p that presented the record of
\* its nonce in p's ledger
DisputedFromLedger(p, op) ==
    /\ op.name = "initiateDispute" /\ op.ok /\ op.sender = p
    /\ op.nonce \in 1..MaxNonce
    /\ DualSigned(p, commitments[p][op.nonce])
    /\ commitments[p][op.nonce].balanceA = op.balanceA
    /\ commitments[p][op.nonce].balanceB = op.balanceB

\* C1: an accepted initiateDispute with a commitment whose revocation secrets
\* were exchanged off-chain closes the channel with the whole balance paid to
\* the counterparty of the submitter, and never leaves it DISPUTED
C1_RevokedDisputeIsPenalised ==
    \A p \in Parties :
       (DisputedFromLedger(p, lastOp) /\ SecretsExchanged(lastOp.nonce))
          => /\ channelState = CLOSED
             /\ paid[Other(p)] = channelBalance
             /\ paid[p] = 0

\* C2: a participant whose accepted initiateDispute presents the highest-nonce
\* dual-signed commitment, which it has not revoked in its ledger, while all
\* that revokedCommitments holds was submitted by the counterparty, is not
\* penalised: the dispute is opened and nothing is paid
C2_LatestDisputeNotPenalised ==
    [][\A p \in Parties :
          (/\ DisputedFromLedger(p, lastOp')
           /\ ~commitments[p][lastOp'.nonce].revoked
           /\ \A q \in Parties, n \in 1..MaxNonce :
                 Exists(commitments[q][n]) => n <= lastOp'.nonce
           /\ revokedCommitments # {} =>
                 /\ lastOp.name = "submitRevocation" /\ lastOp.ok
                 /\ lastOp.sender = Other(p)
                 /\ revokedCommitments = {lastOp.arg})
             => /\ channelState' = DISPUTED
                /\ paid' = paid]_vars

\* C21: every commitment that send-payment creates carries balances that sum
\* to channelBalance, the sum of both parties' deposits, and to the same value
\* as the commitment of the nonce before it in the sender's ledger
C21_CommitmentsSumToTotal ==
    [][(lastOp'.name = "send-payment" /\ lastOp'.ok) =>
          LET p == lastOp'.sender
              created == commitments'[p][states'[p].nonce]
              before == getCommitment(p, created.nonce - 1)
          IN /\ created.balanceA + created.balanceB = channelBalance
             /\ Exists(before) =>
                   created.balanceA + created.balanceB = before.balanceA + before.balanceB]_vars

\* ------------------------------------------------------------------------
\* Properties of the off-chain exchange over an altering wire
\* ------------------------------------------------------------------------
\* C22: sign-commitment on a commitment whose hash field is not the hash of
\* its nonce and balances is rejected, and a rejected sign-commitment leaves
\* the signer's ledger (commitments, revocation marks, current nonce and
\* balances) as it was, so that no signature and no secret of the signer
\* come into being
C22_HashMismatchChangesNothing ==
    /\ [](\A p \in Parties : \A incoming \in WireProposals(p) :
             /\ signCommitmentAccepts(incoming)
             /\ ~signCommitmentAccepts(Tampered(incoming)))
    /\ [][(lastOp'.name = "sign-commitment" /\ ~lastOp'.ok) => UNCHANGED ledgerVars]_vars

\* partyB was handed partyA's payment with an altered hash and refused it:
\* partyB's ledger is still empty
C22_Witness ==
    /\ lastOp.name = "sign-commitment" /\ ~lastOp.ok /\ lastOp.sender = partyB
    /\ Records(partyA) # {}
    /\ Records(partyB) = {}
    /\ states[partyB].nonce = 0

\* C23: sign-commitment signs and records a commitment only when its balances
\* sum to the channel balance, and otherwise leaves the ledger as it was
C23_SignsOnlyRightSum ==
    [][lastOp'.name = "sign-commitment" =>
          LET p == lastOp'.sender
              signed == commitments'[p][states'[p].nonce]
          IN IF commitments'[p] # commitments[p]
             THEN signed.balanceA + signed.balanceB = channelBalance
             ELSE UNCHANGED ledgerVars]_vars

\* C24: sign-commitment signs and records a commitment of nonce N only when
\* the current nonce of the signer's ledger is N - 1; a commitment that skips
\* a nonce is refused and the ledger stays as it was
C24_NoNonceGap ==
    [][lastOp'.name = "sign-commitment" =>
          LET p == lastOp'.sender
          IN IF commitments'[p] # commitments[p]
             THEN states'[p].nonce = states[p].nonce + 1
             ELSE UNCHANGED ledgerVars]_vars

\* C25: in each party's ledger the current nonce never decreases, and the
\* current balances are those of the commitment recorded for that nonce
C25_NonceNeverDecreases ==
    /\ [](\A p \in Parties :
             states[p].nonce >= 1 =>
                /\ Exists(getCommitment(p, states[p].nonce))
                /\ getCommitment(p, states[p].nonce).balanceA = states[p].balanceA
                /\ getCommitment(p, states[p].nonce).balanceB = states[p].balanceB)
    /\ [][\A p \in Parties : states'[p].nonce >= states[p].nonce]_vars

\* C26: finalize-commitment stores a counterparty signature in a commitment
\* only when the signature recovers to the counterparty of the party that
\* runs the command
C26_FinalizeOnlyCounterpartySignature ==
    [][lastOp'.name = "finalize-commitment" =>
          LET p == lastOp'.sender
          IN \A n \in 1..MaxNonce :
                LET stored == commitments'[p][n].counterpartySignature
                IN stored # commitments[p][n].counterpartySignature
                      => Recover(stored.digest, stored) = Other(p)]_vars

\* the response carries a secret for the previous nonce that does not hash to
\* the counterparty's revocation hash stored with the previous commitment
SecretMismatch(list, signed) ==
    LET previousCommitment == Lookup(list, signed.nonce - 1)
    IN /\ signed.previousRevocationSecret # None
       /\ Exists(Lookup(list, signed.nonce))
       /\ Exists(previousCommitment)
       /\ previousCommitment.counterpartyRevocationHash # None
       /\ Keccak(signed.previousRevocationSecret)
             # previousCommitment.counterpartyRevocationHash

\* C27: finalize-commitment on a response whose previous-nonce secret does
\* not hash to the stored counterparty revocation hash leaves the ledger as
\* it was: the previous commitment is not marked revoked, the commitment is
\* not recorded with the counterparty's signature, and the party's own
\* previous secret is not released
C27_SecretMismatchChangesNothing ==
    \A p \in Parties : \A signed \in Responses(p) :
       SecretMismatch(commitments[p], signed)
          => finalized(commitments[p], signed) = commitments[p]

\* C28: a party marks a commitment revoked only in a step in which it
\* receives the counterparty's secret for that commitment and the secret
\* hashes to the counterparty's revocation hash stored with it: a
\* receive-revocation, or a finalize-commitment whose response carries it
C28_RevokedOnlyAfterSecretReceived ==
    [][\A p \in Parties, n \in 1..MaxNonce :
          (commitments'[p][n].revoked /\ ~commitments[p][n].revoked) =>
             LET stored == commitments[p][n].counterpartyRevocationHash
             IN \/ /\ lastOp'.name = "receive-revocation"
                   /\ \E response \in RevocationResponses(p) :
                         /\ response.nonce = n + 1
                         /\ Keccak(response.previousRevocationSecret) = stored
                         /\ commitments'[p] = revocationReceived(commitments[p], response)
                \/ /\ lastOp'.name = "finalize-commitment"
                   /\ \E signed \in Responses(p) :
                         /\ signed.nonce = n + 1
                         /\ Keccak(signed.previousRevocationSecret) = stored
                         /\ commitments'[p] = finalized(commitments[p], signed)]_vars

\* C29: receive-revocation applied a second time with the same nonce and
\* secret is accepted again and leaves the ledger that the first application
\* left; with a secret that does not hash to the stored counterparty
\* revocation hash it changes nothing; it never touches the current nonce and
\* balances
C29_RevocationIdempotent ==
    /\ [](\A p \in Parties : \A response \in RevocationResponses(p) :
             LET list == commitments[p]
                 once == revocationReceived(list, response)
                 twice == revocationReceived(once, response)
                 stored == Lookup(list, response.nonce - 1).counterpartyRevocationHash
             IN /\ twice = once
                /\ revocationVerified(list, response) => revocationVerified(once, response)
                /\ Keccak(response.previousRevocationSecret) # stored => once = list)
    /\ [][lastOp'.name = "receive-revocation" =>
             /\ UNCHANGED states
             /\ ~lastOp'.ok => UNCHANGED commitments]_vars

\* partyB verified partyA's secret for commitment 1 and holds it; the same
\* response is still on the wire
C29_Witness ==
    /\ lastOp.name = "receive-revocation" /\ lastOp.ok /\ lastOp.sender = partyB
    /\ commitments[partyB][1].revoked
    /\ commitments[partyB][1].revocationSecret = commitments[partyA][1].revocationPreimage
    /\ [nonce |-> 2, previousRevocationSecret |-> commitments[partyB][1].revocationSecret]
          \in RevocationResponses(partyB)
    /\ revocationVerified(commitments[partyB],
                          [nonce |-> 2,
                           previousRevocationSecret |-> commitments[partyB][1].revocationSecret])

\* ------------------------------------------------------------------------
\* Properties of the exchange run in order
\* ------------------------------------------------------------------------
\* C30: when k >= 1 payments have been exchanged in order to the end, both
\* ledgers are at nonce k and hold exactly the commitments 1..k, every
\* commitment below k is marked revoked in both, and commitment k is not
C30_OnlyLatestNotRevoked ==
    (ExchangeComplete /\ ~Completed("openChannel")) =>
       LET k == states[partyA].nonce
       IN /\ k >= 1
          /\ \A p \in Parties :
                /\ states[p].nonce = k
                /\ \A n \in 1..MaxNonce :
                      /\ Exists(commitments[p][n]) <=> n <= k
                      /\ n < k => commitments[p][n].revoked
                      /\ n = k => ~commitments[p][n].revoked

\* two payments were exchanged to the end, the second one with the
\* revocation of the first
C30_Witness ==
    /\ Completed("receive-revocation")
    /\ \A p \in Parties :
          /\ states[p].nonce = 2
          /\ commitments[p][1].revoked
          /\ Exists(commitments[p][2]) /\ ~commitments[p][2].revoked
    /\ commitments[partyA][2].balanceB = commitments[partyA][1].balanceB + 1

\* ------------------------------------------------------------------------
\* Properties of the dispute command
\* ------------------------------------------------------------------------
\* C31: when an exchange has run to its end in an open channel, the
\* commitment at the head of a party's ledger, signed by both parties, has
\* balances that sum to channelBalance and the dispute command for it is
\* accepted by initiateDispute; the accepted call leaves the channel DISPUTED
\* with that commitment's nonce and balances, and finalizeDispute then pays
\* exactly these balances
C31_LatestCommitmentDisputable ==
    /\ [](\A p \in Parties :
             LET c == getCommitment(p, states[p].nonce)
             IN (inState(OPEN) /\ ExchangeComplete /\ DualSigned(p, c)) =>
                   /\ c.balanceA + c.balanceB = channelBalance
                   /\ disputeAccepts(p, c.nonce))
    /\ [][/\ Accepted("initiateDispute") =>
                /\ channelState' = DISPUTED
                /\ disputedNonce' = lastOp'.nonce
                /\ disputedBalanceA' = lastOp'.balanceA
                /\ disputedBalanceB' = lastOp'.balanceB
          /\ Accepted("finalizeDispute") =>
                paid' = [paid EXCEPT ![partyA] = @ + disputedBalanceA,
                                     ![partyB] = @ + disputedBalanceB]]_vars

\* ------------------------------------------------------------------------
\* Properties of send-payment
\* ------------------------------------------------------------------------
\* C32: a proposal does not move the head of the proposer's ledger: a
\* send-payment that goes through leaves the current nonce and balances as
\* they were, and in every state the current nonce of a ledger is that of a
\* commitment signed by both parties
C32_ProposalKeepsHead ==
    /\ [](\A p \in Parties :
             states[p].nonce >= 1 => DualSigned(p, getCommitment(p, states[p].nonce)))
    /\ [][(lastOp'.name = "send-payment" /\ lastOp'.ok) => UNCHANGED states]_vars

\* C33: send-payment by either party goes through exactly when the amount
\* does not exceed the proposer's own current balance; then the new
\* commitment has the nonce after the current one, the proposer's balance less
\* the amount and the counterparty's balance plus the amount; a send-payment
\* that fails leaves the ledger as it was
C33_PaymentsBidirectional ==
    [][lastOp'.name = "send-payment" =>
          LET p == lastOp'.sender
              own(st) == IF p = partyA THEN st.balanceA ELSE st.balanceB
              theirs(st) == IF p = partyA THEN st.balanceB ELSE st.balanceA
          IN IF lastOp'.ok
             THEN /\ states'[p].nonce = states[p].nonce + 1
                  /\ \E amount \in 0..MaxPayment :
                        /\ amount <= own(states[p])
                        /\ own(states'[p]) = own(states[p]) - amount
                        /\ theirs(states'[p]) = theirs(states[p]) + amount
                  /\ commitments'[p][states'[p].nonce].balanceA = states'[p].balanceA
                  /\ commitments'[p][states'[p].nonce].balanceB = states'[p].balanceB
             ELSE /\ UNCHANGED ledgerVars
                  /\ \E amount \in 0..MaxPayment : amount > own(states[p])]_vars

\* ------------------------------------------------------------------------
\* Properties of the content server
\* ------------------------------------------------------------------------
\* C34: revealSecret for a nonce whose secret was generated succeeds, the
\* second time as the first, and returns the secret generated for the nonce;
\* for a nonce with no generated secret it fails and changes nothing;
\* generateSecret returns the same secret every time it is called for a nonce
C34_RevealRepeatable ==
    [][/\ reply'.name = "revealSecret" =>
             LET nonce == reply'.arg
             IN IF secrets[nonce] # None \/ revealedSecrets[nonce] # None
                THEN reply'.ok /\ reply'.value = SecretOf(nonce)
                ELSE ~reply'.ok /\ UNCHANGED <<secrets, revealedSecrets>>
       /\ reply'.name = "generateSecret" =>
             /\ reply'.value = SecretOf(reply'.arg)
             /\ secrets[reply'.arg] # None => reply'.value = secrets[reply'.arg]]_vars

\* ------------------------------------------------------------------------
\* Properties of the commitment hash
\* ------------------------------------------------------------------------
\* the revocation hashes that go with a commitment
RevocationHashes == {Keccak(Preimage(p, n, 1)) : p \in Parties, n \in 1..MaxNonce}

\* the fields of a commitment
CommitmentFields ==
    [nonce : 1..MaxNonce, balanceA : Balances, balanceB : Balances,
     revocationHashA : RevocationHashes, revocationHashB : RevocationHashes]

\* the hash PaymentManager.createCommitment signs for a commitment
createCommitmentHash(c) == CommitmentHash(c.nonce, c.balanceA, c.balanceB)

\* the hash initiateDispute recomputes for a commitment
initiateDisputeHash(c) == CommitmentHash(c.nonce, c.balanceA, c.balanceB)

\* the hash createAndSignCommitmentVerbose signs for a commitment
createAndSignCommitmentHash(c) ==
    ExampleCommitmentHash(c.nonce, c.balanceA, c.balanceB, c.revocationHashA,
                          c.revocationHashB)

\* the fields of a record of party p's ledger
FieldsOf(p, c) ==
    [nonce |-> c.nonce, balanceA |-> c.balanceA, balanceB |-> c.balanceB,
     revocationHashA |-> IF p = partyA THEN c.revocationHash
                         ELSE c.counterpartyRevocationHash,
     revocationHashB |-> IF p = partyB THEN c.revocationHash
                         ELSE c.counterpartyRevocationHash]

\* C35: the signature a ledger holds for a commitment is over the hash of the
\* commitment's fields, which is the hash the contract recomputes; a
\* commitment that differs from it in exactly one of nonce, balanceA,
\* balanceB, revocationHashA and revocationHashB has a different hash, in the
\* hash the CLI signs, in the hash the contract verifies and in the hash the
\* content example signs
C35_HashBindsEveryField ==
    \A p \in Parties : \A c \in Records(p) :
       LET x == FieldsOf(p, c)
       IN /\ c.signature = SignMessage(p, createCommitmentHash(x))
          /\ createCommitmentHash(x) = initiateDisputeHash(x)
          /\ \A y \in CommitmentFields :
                Cardinality({f \in DOMAIN x : x[f] # y[f]}) = 1 =>
                   /\ createCommitmentHash(x) # createCommitmentHash(y)
                   /\ initiateDisputeHash(x) # initiateDisputeHash(y)
                   /\ createAndSignCommitmentHash(x) # createAndSignCommitmentHash(y)

\* ------------------------------------------------------------------------
\* Properties of the ledger files
\* ------------------------------------------------------------------------
\* C36: when the operations of the two processes, each on its own channel,
\* have run to their end in whatever interleaving, the two files are those
\* that the same operations leave when run one after the other: no update of
\* either channel is lost
C36_ChannelsIndependent ==
    (\A proc \in Processes : process[proc].pc = "idle") =>
       /\ commitmentsFile = sequential.commitments
       /\ statesFile = sequential.states

C38_FundsConserved ==
    /\ [](inState(CLOSED) =>
             \A s \in Callers, recv \in Recv :
                /\ ~refundDepositsAccepts(s, recv)
                /\ ~finalizeDisputeAccepts(s, recv)
                /\ \A secret \in SecretInputs : ~proveRevocationBreachAccepts(s, secret, TRUE))
    /\ [][IF channelState # CLOSED /\ channelState' = CLOSED
          THEN /\ paid = [p \in Parties |-> 0]
               /\ paid'[partyA] + paid'[partyB] = deposits[partyA] + deposits[partyB]
               /\ lastOp'.ok
               /\ lastOp'.name \in {"refundDeposits", "cooperativeClose", "finalizeDispute",
                                     "initiateDispute", "proveRevocationBreach"}
          ELSE /\ paid' = paid
               /\ \A p \in Parties : deposits'[p] >= deposits[p]]_vars

\* the funding failed with both parties' deposits in the channel, and the
\* refund sent each deposit back
C38_Witness ==
    /\ lastOp.name = "refundDeposits" /\ lastOp.ok
    /\ inState(CLOSED)
    /\ paid[partyA] > 0 /\ paid[partyB] > 0
    /\ channelBalance = 0

\* ------------------------------------------------------------------------
\* Properties of the settlement calls while they transfer
\* ------------------------------------------------------------------------
\* C39: while refundDeposits, finalizeDispute, cooperativeClose or the penalty
\* is making a transfer, the channel is already CLOSED and the guard is
\* entered, so that no function of the channel accepts a call, whoever makes
\* it and with whatever arguments; the calls made meanwhile are rejected and
\* change nothing; and a party that has been paid is not paid again
C39_ReentrancySafe ==
    /\ [](Receiving => inState(CLOSED) /\ ~nonReentrant)
    /\ [](Receiving =>
             \A s \in Callers :
                /\ \A v \in 0..MaxValue : ~fundChannelAccepts(s, v)
                /\ ~openChannelAccepts(s)
                /\ \A recv \in Recv :
                      /\ ~refundDepositsAccepts(s, recv)
                      /\ ~finalizeDisputeAccepts(s, recv)
                      /\ \A bal \in BalanceInputs :
                            ~cooperativeCloseAccepts(s, bal[1], bal[2], BothSignedClose(bal)[1],
                                                     BothSignedClose(bal)[2], recv)
                /\ \A secret \in SecretInputs :
                      /\ ~submitRevocationAccepts(s, Keccak(secret), secret)
                      /\ ~proveRevocationBreachAccepts(s, secret, TRUE)
                /\ \A n \in Nonces, bal \in BalanceInputs :
                      /\ ~initiateDisputeAccepts(s, n, bal[1], bal[2], BothSigned(n, bal)[1],
                                                 BothSigned(n, bal)[2], TRUE)
                      /\ ~challengeDisputeAccepts(s, n, bal[1], bal[2], BothSigned(n, bal)[1],
                                                  BothSigned(n, bal)[2]))
    /\ [][(Receiving /\ frame' = frame) => (~lastOp'.ok /\ UNCHANGED chainVars)]_vars
    /\ [][\A p \in Parties :
             paid'[p] > paid[p] =>
                /\ paid[p] = 0
                /\ Receiving
                /\ Head(frame.transfers).to = p
                /\ frame'.transfers = Tail(frame.transfers)]_vars

\* finalizeDispute has paid partyA and is transferring to partyB, whose code
\* called finalizeDispute again and was rejected
C39_Witness ==
    /\ Receiving
    /\ frame.op.name = "finalizeDispute"
    /\ Head(frame.transfers).to = partyB
    /\ paid[partyA] > 0 /\ paid[partyB] = 0
    /\ lastOp.name = "finalizeDispute" /\ ~lastOp.ok

\* ------------------------------------------------------------------------
\* Properties of the content server
\* ------------------------------------------------------------------------
\* C40: when /submit-commitment answers with bob's signature and the
\* revocation secret, the commitment it was sent has the nonce and the
\* balances of the commitment the invoice was issued with; and the secret of
\* an invoice is sent out at most once
C40_SecretOnlyForIssuedCommitment ==
    /\ (reply.name = "submit-commitment" /\ reply.ok) =>
          /\ reply.value.commitment.nonce = reply.value.issued.nonce
          /\ reply.value.commitment.aliceBalance = reply.value.issued.aliceBalance
          /\ reply.value.commitment.bobBalance = reply.value.issued.bobBalance
    /\ \A invoiceId \in InvoiceIds : released[invoiceId] <= 1

====
